---- MODULE Spec2Model ----
(***************************************************************************)
(* A model of the lint engine of pydantic-gitlab-cli: the configuration    *)
(* resolver (linter/config.py), the rule abstraction (linter/base.py),     *)
(* the engine (linter/engine.py) and the job dependency rule               *)
(* (linter/rules/dependencies.py).                                         *)
(*                                                                         *)
(* Rules other than GL003 are modelled by what the engine can observe of   *)
(* them on one file: whether is_applicable returns true, false or raises,  *)
(* how many violations check appends through LintRule.add_violation, and   *)
(* whether check then raises.  Only exceptions derived from Exception are  *)
(* modelled (the engine's except clause catches exactly those).            *)
(***************************************************************************)
EXTENDS Integers, Sequences, FiniteSets, TLC

VARIABLES
    config,         \* LintEngine.config: the resolved LinterConfig
    loader_config,  \* TRUE iff LintEngine.config_loader.config is that object (FALSE: None)
    document,       \* history: the decoded settings the configuration was built from
    rules,          \* LintEngine.rules: dict rule_id -> rule, in dict (insertion) order
    reglog,         \* history: the rule_id of every register_rule call, in call order
    nconf,          \* history: number of configure_rule calls
    call,           \* the most recent engine call: operation, files given, return
    results,        \* the LintResults the most recent call returned (or was given)
    ran,            \* history: the is_applicable/check invocations of that call
    ci,             \* JobDependenciesRule: the parsed pipeline handed to check
    dep_out,        \* JobDependenciesRule: what check left behind (violations, level, graphs)
    parallel,       \* ParallelMatrixLimitRule: job.parallel of each job of the pipeline
    matrix_out,     \* ParallelMatrixLimitRule: what check computed and added
    fan,            \* one JobDependenciesRule instance checking files from several threads
    walk            \* _check_cycles on one graph, statement by statement

vars == <<config, loader_config, document, rules, reglog, nconf, call, results, ran, ci,
          dep_out, parallel, matrix_out, fan, walk>>

engine_vars ==
    <<config, loader_config, document, rules, reglog, nconf, call, results, ran>>

deps_vars == <<ci, dep_out>>

matrix_vars == <<parallel, matrix_out>>

fanout_vars == <<fan>>

walk_vars == <<walk>>

\* ------------------------------------------------------------------ bounds

MaxRegs == 3

MaxConfigures == 1

MaxFiles == 2

MaxCfgEntries == 1

MaxEdges == 3

\* Size of a matrix: its list items, each counted with its map entries
MaxCells == 3

\* Jobs of a staged pipeline besides the two whose attributes vary
MaxFillers == 4

\* ------------------------------------------------------------ base.py

ERROR == "error"

WARNING == "warning"

INFO == "info"

LintLevel == {ERROR, WARNING, INFO}

\* The rule classes of the model: JobDependenciesRule, SecretsInCodeRule and
\* PythonCacheRule, each with the level its constructor sets.
RuleClasses ==
    { [rule_id |-> "GL003", category |-> "dependencies", level |-> ERROR],
      [rule_id |-> "GL012", category |-> "security", level |-> ERROR],
      [rule_id |-> "GL027", category |-> "cache_optimization", level |-> WARNING] }

RuleIds == {c.rule_id : c \in RuleClasses}

Categories == {c.category : c \in RuleClasses}

\* LintRule.__init__ as the rule classes call it: enabled=True, the class's level.
NewRule(cls, inst) ==
    [rule_id |-> cls.rule_id, category |-> cls.category, inst |-> inst,
     enabled |-> TRUE, level |-> cls.level]

\* LintResult.add_violation: build the violation with the result's file_path
\* and append it.
ResultAddViolation(violations, file_path, rule_id, level, message, line, job_name) ==
    Append(violations,
           [rule_id |-> rule_id, level |-> level, message |-> message,
            file_path |-> file_path, line |-> line, job_name |-> job_name])

\* LintRule.add_violation: the rule's own rule_id and its current level.
RuleAddViolation(violations, file_path, rule, message, line, job_name) ==
    ResultAddViolation(violations, file_path, rule.rule_id, rule.level, message, line,
                       job_name)

LevelCount(violations, level) ==
    Cardinality({i \in 1..Len(violations) : violations[i].level = level})

\* LintResult.error_count / warning_count / info_count
error_count(r) == LevelCount(r.violations, ERROR)

warning_count(r) == LevelCount(r.violations, WARNING)

info_count(r) == LevelCount(r.violations, INFO)

\* ---------------------------------------------------------- config.py

\* RuleConfig(): enabled=True, level=ERROR
RuleConfigDefault == [enabled |-> TRUE, level |-> ERROR]

\* A raw "rules" entry of a settings document: each field given or left out.
RawEntries == [enabled : {"unset", "true", "false"}, level : {"unset"} \cup LintLevel]

\* LinterConfig.validate_rules: every entry becomes a RuleConfig, the fields
\* left out taking RuleConfig's defaults.
validate_rules(raw_rules) ==
    [rid \in DOMAIN raw_rules |->
        [enabled |-> IF raw_rules[rid].enabled = "unset" THEN RuleConfigDefault.enabled
                     ELSE raw_rules[rid].enabled = "true",
         level |-> IF raw_rules[rid].level = "unset" THEN RuleConfigDefault.level
                   ELSE raw_rules[rid].level]]

\* LinterConfig(**data)
LinterConfig(raw) ==
    [strict_mode |-> raw.strict_mode,
     max_violations |-> raw.max_violations,
     fail_on_warnings |-> raw.fail_on_warnings,
     rules |-> validate_rules(raw.rules),
     categories |-> raw.categories]

\* The default table of ConfigLoader._apply_default_rules, for the rule ids of
\* the model (GL027 is not in the table).
default_rules ==
    [rid \in {"GL003", "GL012"} |->
        IF rid = "GL003" THEN [enabled |-> TRUE, level |-> WARNING]
        ELSE [enabled |-> TRUE, level |-> ERROR]]

\* ConfigLoader._apply_default_rules: defaults for the ids not configured.
apply_default_rules(cfg) ==
    [cfg EXCEPT !.rules =
        [rid \in (DOMAIN cfg.rules) \cup (DOMAIN default_rules) |->
            IF rid \in DOMAIN cfg.rules THEN cfg.rules[rid] ELSE default_rules[rid]]]

\* ConfigLoader.load_config: the file's (or the default) LinterConfig with the
\* default table applied.
load_config(raw) == apply_default_rules(LinterConfig(raw))

\* ConfigLoader.get_rule_config
get_rule_config(rule_id) ==
    IF ~loader_config THEN RuleConfigDefault
    ELSE IF rule_id \in DOMAIN config.rules THEN config.rules[rule_id]
    ELSE RuleConfigDefault

\* ConfigLoader.is_rule_enabled
is_rule_enabled_NoCategory(rule_id, category) == get_rule_config(rule_id).enabled

is_rule_enabled(rule_id, category) ==
    IF ~loader_config THEN TRUE
    ELSE IF /\ category # ""
            /\ category \in DOMAIN config.categories
            /\ ~config.categories[category]
         THEN FALSE
    ELSE get_rule_config(rule_id).enabled

\* ---------------------------------------------------------- engine.py

\* None / Some(n) for LinterConfig.max_violations: int | None
NoLimit == [is_none |-> TRUE, n |-> 0]

Limit(n) == [is_none |-> FALSE, n |-> n]

Index(d, rule_id) ==
    IF \E i \in 1..Len(d) : d[i].rule_id = rule_id
    THEN CHOOSE i \in 1..Len(d) : d[i].rule_id = rule_id
    ELSE 0

\* self.rules[rule.rule_id] = rule on a Python dict: an existing key keeps its
\* position and gets the new value, a new key goes last.
DictSet_Append(d, rule) == Append(d, rule)

DictSet_KeepOld(d, rule) ==
    IF Index(d, rule.rule_id) # 0 THEN d ELSE Append(d, rule)

DictSet_MoveToEnd(d, rule) ==
    Append(SelectSeq(d, LAMBDA r : r.rule_id # rule.rule_id), rule)

DictSet(d, rule) ==
    IF Index(d, rule.rule_id) # 0
    THEN [i \in 1..Len(d) |-> IF d[i].rule_id = rule.rule_id THEN rule ELSE d[i]]
    ELSE Append(d, rule)

CallRecord(op, files, ret) == [op |-> op, files |-> files, ret |-> ret]

\* LintEngine.register_rule, on a fresh instance of class cls: the resolver's
\* enabled and level are written into the rule, then it is stored by rule_id.
register_rule(registry, cls, inst) ==
    LET rule == NewRule(cls, inst)
        rule_config == get_rule_config(rule.rule_id)
        configured == [rule EXCEPT !.enabled = is_rule_enabled(rule.rule_id, rule.category),
                                   !.level = rule_config.level]
    IN DictSet(registry, configured)

RegisterRule(cls) ==
    /\ Len(reglog) < MaxRegs
    /\ rules' = register_rule(rules, cls, Len(reglog) + 1)
    /\ reglog' = Append(reglog, cls.rule_id)
    /\ call' = CallRecord("register_rule", <<>>, "returned")
    /\ results' = <<>>
    /\ ran' = <<>>
    /\ UNCHANGED <<config, loader_config, document, nconf>>
    /\ UNCHANGED <<deps_vars, matrix_vars, fanout_vars, walk_vars>>

\* LintEngine.register_rules: register_rule for each rule of the list, in order.
RECURSIVE register_rules(_, _, _)
register_rules(registry, classes, inst) ==
    IF classes = <<>> THEN registry
    ELSE register_rules(register_rule(registry, Head(classes), inst), Tail(classes), inst + 1)

ClassOf(rule_id) == CHOOSE c \in RuleClasses : c.rule_id = rule_id

\* The rule list of the check command, for the rule classes of the model:
\* JobDependenciesRule, then SecretsInCodeRule, then PythonCacheRule.
CheckRuleList == <<ClassOf("GL003"), ClassOf("GL012"), ClassOf("GL027")>>

RegisterRules(classes) ==
    /\ Len(reglog) + Len(classes) <= MaxRegs
    /\ rules' = register_rules(rules, classes, Len(reglog) + 1)
    /\ reglog' = reglog \o [i \in 1..Len(classes) |-> classes[i].rule_id]
    /\ call' = CallRecord("register_rules", <<>>, "returned")
    /\ results' = <<>>
    /\ ran' = <<>>
    /\ UNCHANGED <<config, loader_config, document, nconf>>
    /\ UNCHANGED <<deps_vars, matrix_vars, fanout_vars, walk_vars>>

\* LintEngine.configure_rule; level "none" is the default argument None.
configure_rule(registry, rule_id, enabled, level) ==
    LET i == Index(registry, rule_id)
    IN IF i = 0 THEN registry
       ELSE [registry EXCEPT ![i].enabled = enabled,
                             ![i].level = IF level # "none" THEN level ELSE @]

ConfigureRule(rule_id, enabled, level) ==
    /\ nconf < MaxConfigures
    /\ nconf' = nconf + 1
    /\ rules' = configure_rule(rules, rule_id, enabled, level)
    /\ call' = CallRecord("configure_rule", <<>>,
                          IF Index(rules, rule_id) = 0 THEN "false" ELSE "true")
    /\ results' = <<>>
    /\ ran' = <<>>
    /\ UNCHANGED <<config, loader_config, document, reglog>>
    /\ UNCHANGED <<deps_vars, matrix_vars, fanout_vars, walk_vars>>

\* What one rule does on one file, as far as the engine can observe it:
\* is_applicable returns True ("yes"), False ("no") or raises ("raise");
\* check appends `emits` violations through LintRule.add_violation and then
\* returns, or raises when `raises`.
Behaviour(applicable, emits, raises) ==
    [applicable |-> applicable, emits |-> emits, raises |-> raises]

\* str(e) of the exception a rule raises
ErrText(rule_id) == <<"boom in ", rule_id>>

NoException == [raised |-> FALSE, text |-> <<>>]

Exception(text) == [raised |-> TRUE, text |-> text]

ParseKinds == {"ok", "missing", "empty", "yaml_error", "invalid", "unreadable"}

\* LintEngine._parse_gitlab_ci_file: (ci_config, error_msg); error_msg "" is None.
\* A validation error fails the parse in strict and in non-strict mode.
parse_gitlab_ci_file_Lenient(content, strict) ==
    IF content.kind = "ok" \/ (content.kind = "invalid" /\ ~strict)
    THEN [ci_config |-> TRUE, error_msg |-> ""]
    ELSE [ci_config |-> FALSE, error_msg |-> "GitLab CI validation error"]

parse_gitlab_ci_file(content, strict) ==
    CASE content.kind = "ok" -> [ci_config |-> TRUE, error_msg |-> ""]
      [] content.kind = "empty" ->
            [ci_config |-> FALSE, error_msg |-> "File is empty or contains only comments"]
      [] content.kind = "yaml_error" ->
            [ci_config |-> FALSE, error_msg |-> "YAML parsing error"]
      [] content.kind = "invalid" ->
            IF strict THEN [ci_config |-> FALSE, error_msg |-> "GitLab CI validation error"]
            ELSE [ci_config |-> FALSE, error_msg |-> "GitLab CI validation error"]
      [] content.kind = "missing" -> [ci_config |-> FALSE, error_msg |-> "File not found"]
      [] OTHER -> [ci_config |-> FALSE, error_msg |-> "Unexpected error reading file"]

Event(file_path, rule, step) ==
    [file_path |-> file_path, rule_id |-> rule.rule_id, inst |-> rule.inst, step |-> step]

RuleFailed(text) == <<"Rule execution failed: ">> \o text

Finding == <<"finding">>

\* The try block of lint_file's loop for one rule: is_applicable, then check.
\* acc is the run so far; the exception (if any) is handed to the handler.
TryRule(rule, file_path, content, acc) ==
    LET b == content.beh[rule.rule_id]
        asked == Append(acc.ran, Event(file_path, rule, "is_applicable"))
        RECURSIVE emit(_, _)
        emit(violations, k) ==
            IF k > b.emits THEN violations
            ELSE emit(RuleAddViolation(violations, file_path, rule, Finding, k, ""), k + 1)
    IN CASE b.applicable = "raise" ->
              [violations |-> acc.violations, ran |-> asked,
               exc |-> Exception(ErrText(rule.rule_id))]
         [] b.applicable = "no" ->
              [violations |-> acc.violations, ran |-> asked, exc |-> NoException]
         [] OTHER ->
              [violations |-> emit(acc.violations, 1),
               ran |-> Append(asked, Event(file_path, rule, "check")),
               exc |-> IF b.raises THEN Exception(ErrText(rule.rule_id)) ELSE NoException]

\* One round of lint_file's loop: the try block and `except Exception`, which
\* adds one ERROR violation with the rule's id and the exception's text.
RunRule_NoCatch(rule, file_path, content, acc) ==
    LET t == TryRule(rule, file_path, content, acc)
    IN [violations |-> t.violations, ran |-> t.ran, raised |-> t.exc.raised]

RunRule_RuleLevel(rule, file_path, content, acc) ==
    LET t == TryRule(rule, file_path, content, acc)
    IN [violations |->
            IF t.exc.raised
            THEN RuleAddViolation(t.violations, file_path, rule, RuleFailed(t.exc.text), 0, "")
            ELSE t.violations,
        ran |-> t.ran, raised |-> FALSE]

RunRule(rule, file_path, content, acc) ==
    LET t == TryRule(rule, file_path, content, acc)
    IN [violations |->
            IF t.exc.raised
            THEN ResultAddViolation(t.violations, file_path, rule.rule_id, ERROR,
                                    RuleFailed(t.exc.text), 0, "")
            ELSE t.violations,
        ran |-> t.ran, raised |-> FALSE]

RECURSIVE RunRules(_, _, _, _, _)
RunRules(enabled_rules, i, file_path, content, acc) ==
    IF i > Len(enabled_rules) \/ acc.raised THEN acc
    ELSE RunRules(enabled_rules, i + 1, file_path, content,
                  RunRule(enabled_rules[i], file_path, content, acc))

LintResult(file_path, violations, parse_error) ==
    [file_path |-> file_path, violations |-> violations, parse_error |-> parse_error]

\* The rules lint_file runs: [rule for rule in self.rules.values() if rule.enabled]
EnabledRules_All(registry) == registry

EnabledRules(registry) == SelectSeq(registry, LAMBDA r : r.enabled)

\* LintEngine.lint_file; strict_arg "none" is the default argument None.
lint_file_RunAnyway(registry, file_path, content, strict_arg) ==
    LET strict == IF strict_arg = "none" THEN config.strict_mode ELSE strict_arg = "true"
        parsed == parse_gitlab_ci_file(content, strict)
        run == RunRules(EnabledRules(registry), 1, file_path, content,
                        [violations |-> <<>>, ran |-> <<>>, raised |-> FALSE])
    IN [result |-> LintResult(file_path, run.violations, parsed.error_msg),
        ran |-> run.ran, raised |-> run.raised]

lint_file(registry, file_path, content, strict_arg) ==
    LET strict == IF strict_arg = "none" THEN config.strict_mode ELSE strict_arg = "true"
        parsed == parse_gitlab_ci_file(content, strict)
        run == RunRules(EnabledRules(registry), 1, file_path, content,
                        [violations |-> <<>>, ran |-> <<>>, raised |-> FALSE])
    IN IF parsed.error_msg # ""
       THEN [result |-> LintResult(file_path, <<>>, parsed.error_msg),
             ran |-> <<>>, raised |-> FALSE]
       ELSE [result |-> LintResult(file_path, run.violations, ""),
             ran |-> run.ran, raised |-> run.raised]

StrictArgs == {"none", "true", "false"}

LintFile(content, strict_arg) ==
    LET r == lint_file(rules, 1, content, strict_arg)
    IN /\ results' = IF r.raised THEN <<>> ELSE <<r.result>>
       /\ ran' = r.ran
       /\ call' = CallRecord("lint_file", <<content>>,
                             IF r.raised THEN "raised" ELSE "returned")
       /\ UNCHANGED <<config, loader_config, document, rules, reglog, nconf>>
       /\ UNCHANGED <<deps_vars, matrix_vars, fanout_vars, walk_vars>>

LintFileIn(universe, stricts) ==
    \E content \in universe, strict_arg \in stricts : LintFile(content, strict_arg)

\* Python's seq[:n]
SliceTo(seq, n) ==
    LET m == IF n >= 0 THEN (IF n < Len(seq) THEN n ELSE Len(seq))
             ELSE (IF Len(seq) + n > 0 THEN Len(seq) + n ELSE 0)
    IN SubSeq(seq, 1, m)

\* LintEngine._apply_config_constraints: `if max_violations and len > max_violations`
\* (None and 0 are both falsy).
apply_config_constraints_NoTruncation(result_list) == result_list

apply_config_constraints(result_list) ==
    [i \in 1..Len(result_list) |->
        IF /\ ~config.max_violations.is_none
           /\ config.max_violations.n # 0
           /\ Len(result_list[i].violations) > config.max_violations.n
        THEN [result_list[i] EXCEPT
                !.violations = SliceTo(result_list[i].violations, config.max_violations.n)]
        ELSE result_list[i]]

\* LintEngine.lint_files: lint_file per path in order, then the constraints.
RECURSIVE lint_each(_, _, _, _, _)
lint_each_SkipUnparsed(registry, files, i, strict_arg, acc) ==
    IF i > Len(files) \/ acc.raised THEN acc
    ELSE LET r == lint_file(registry, i, files[i], strict_arg)
         IN lint_each(registry, files, i + 1, strict_arg,
                      [results |-> IF r.raised \/ r.result.parse_error # "" THEN acc.results
                                   ELSE Append(acc.results, r.result),
                       ran |-> acc.ran \o r.ran, raised |-> r.raised])

lint_each(registry, files, i, strict_arg, acc) ==
    IF i > Len(files) \/ acc.raised THEN acc
    ELSE LET r == lint_file(registry, i, files[i], strict_arg)
         IN lint_each(registry, files, i + 1, strict_arg,
                      [results |-> IF r.raised THEN acc.results
                                   ELSE Append(acc.results, r.result),
                       ran |-> acc.ran \o r.ran, raised |-> r.raised])

lint_files(registry, files, strict_arg) ==
    LET all == lint_each(registry, files, 1, strict_arg,
                         [results |-> <<>>, ran |-> <<>>, raised |-> FALSE])
    IN [results |-> apply_config_constraints(all.results), ran |-> all.ran,
        raised |-> all.raised]

LintFiles(files, strict_arg) ==
    LET r == lint_files(rules, files, strict_arg)
    IN /\ results' = IF r.raised THEN <<>> ELSE r.results
       /\ ran' = r.ran
       /\ call' = CallRecord("lint_files", files, IF r.raised THEN "raised" ELSE "returned")
       /\ UNCHANGED <<config, loader_config, document, rules, reglog, nconf>>
       /\ UNCHANGED <<deps_vars, matrix_vars, fanout_vars, walk_vars>>

LintFilesIn(universe, stricts) ==
    \E n \in 0..MaxFiles : \E files \in [1..n -> universe], strict_arg \in stricts :
        LintFiles(files, strict_arg)

RECURSIVE SumOver(_, _)
SumOver(seq, i) == IF i > Len(seq) THEN 0 ELSE seq[i] + SumOver(seq, i + 1)

\* LintEngine.should_fail
should_fail_IgnoreFlag(result_list) ==
    SumOver([i \in 1..Len(result_list) |->
                error_count(result_list[i]) + warning_count(result_list[i])], 1) > 0

should_fail_ErrorsOnly(result_list) ==
    SumOver([i \in 1..Len(result_list) |-> error_count(result_list[i])], 1) > 0

should_fail_OnParseError(result_list) ==
    \/ \E i \in 1..Len(result_list) : result_list[i].parse_error # ""
    \/ \E i \in 1..Len(result_list) : error_count(result_list[i]) > 0
    \/ config.fail_on_warnings
          /\ \E i \in 1..Len(result_list) : warning_count(result_list[i]) > 0

should_fail(result_list) ==
    LET total_errors == SumOver([i \in 1..Len(result_list) |-> error_count(result_list[i])], 1)
        total_warnings ==
            SumOver([i \in 1..Len(result_list) |-> warning_count(result_list[i])], 1)
    IN IF total_errors > 0 THEN TRUE
       ELSE config.fail_on_warnings /\ total_warnings > 0

ShouldFail ==
    /\ call' = CallRecord("should_fail", call.files,
                          IF should_fail(results) THEN "true" ELSE "false")
    /\ UNCHANGED <<config, loader_config, document, rules, reglog, nconf, results, ran>>
    /\ UNCHANGED <<deps_vars, matrix_vars, fanout_vars, walk_vars>>

\* ------------------------------------------------- rules/dependencies.py

JobNames == {"a", "b", "c"}

JobOrder == <<"a", "b", "c">>

\* A job of the parsed pipeline: stage and when are "" when not given;
\* rules_manual says that job.rules has an entry with when == "manual";
\* dependencies and needs hold the declared targets (a needs entry "" is a
\* need that names no job).
Job(name, stage, when, rules_manual, dependencies, needs) ==
    [name |-> name, stage |-> stage, when |-> when, rules_manual |-> rules_manual,
     dependencies |-> dependencies, needs |-> needs]

\* The iteration orders Python does not fix (a list as written, a set as
\* hashed): the elements of S by increasing rank.
RECURSIVE InOrder(_, _)
InOrder(S, rank) ==
    IF S = {} THEN <<>>
    ELSE LET x == CHOOSE y \in S : \A z \in S : rank[y] <= rank[z]
         IN <<x>> \o InOrder(S \ {x}, rank)

\* Two opposite orders: as in JobOrder, and reversed ("" first in both).
Ranks ==
    { [x \in JobNames \cup {""} |->
          IF x = "" THEN 0 ELSE CHOOSE i \in 1..Len(JobOrder) : JobOrder[i] = x],
      [x \in JobNames \cup {""} |->
          IF x = "" THEN 0
          ELSE Len(JobOrder) + 1 - (CHOOSE i \in 1..Len(JobOrder) : JobOrder[i] = x)] }

GL003 == "GL003"

DepViolation(acc, message, job_name) ==
    [acc EXCEPT !.violations =
        RuleAddViolation(@, 1, [rule_id |-> GL003, level |-> acc.level], message, 0,
                         job_name)]

\* JobDependenciesRule._process_traditional_dependencies for one job
RECURSIVE process_traditional_dependencies(_, _, _, _, _)
process_traditional_dependencies(job, deps_list, i, job_names, acc) ==
    IF i > Len(deps_list) THEN acc
    ELSE LET dep == deps_list[i]
         IN process_traditional_dependencies(job, deps_list, i + 1, job_names,
                IF dep \notin job_names
                THEN DepViolation(acc, <<"Job depends on non-existent job ", dep>>, job.name)
                ELSE [acc EXCEPT !.dependencies[job.name] = @ \cup {dep}])

\* JobDependenciesRule._extract_need_job_name: "" is None
extract_need_job_name(need) == need

\* JobDependenciesRule._process_needs_dependencies for one job
RECURSIVE process_needs_dependencies(_, _, _, _, _)
process_needs_dependencies(job, needs_list, i, job_names, acc) ==
    IF i > Len(needs_list) THEN acc
    ELSE LET need_job == extract_need_job_name(needs_list[i])
         IN process_needs_dependencies(job, needs_list, i + 1, job_names,
                IF need_job # "" /\ need_job \notin job_names
                THEN DepViolation(acc, <<"Job needs non-existent job ", need_job>>, job.name)
                ELSE IF need_job # ""
                THEN [acc EXCEPT !.needs_dependencies[job.name] = @ \cup {need_job}]
                ELSE acc)

\* JobDependenciesRule._build_dependency_graph
RECURSIVE build_dependency_graph(_, _, _, _, _)
build_dependency_graph(jobs, i, job_names, rank, acc) ==
    IF i > Len(jobs) THEN acc
    ELSE LET job == jobs[i]
             a1 == process_traditional_dependencies(
                       job, InOrder(job.dependencies, rank), 1, job_names, acc)
             a2 == process_needs_dependencies(
                       job, InOrder(job.needs, rank), 1, job_names, a1)
         IN build_dependency_graph(jobs, i + 1, job_names, rank, a2)

\* has_cycle of JobDependenciesRule._check_cycles: the path set is shared by
\* the whole traversal from one starting job; it is returned with the answer.
RECURSIVE has_cycle(_, _, _, _)
RECURSIVE has_cycle_deps(_, _, _, _, _, _)
has_cycle_VisitedSet(deps, job, path, rank) ==
    IF job \in path THEN [found |-> FALSE, path |-> path]
    ELSE has_cycle_deps(deps, job, InOrder(deps[job], rank), 1, path \cup {job}, rank)

has_cycle(deps, job, path, rank) ==
    IF job \in path THEN [found |-> TRUE, path |-> path]
    ELSE has_cycle_deps(deps, job, InOrder(deps[job], rank), 1, path \cup {job}, rank)

has_cycle_deps_NoRemove(deps, job, targets, i, path, rank) ==
    IF i > Len(targets) THEN [found |-> FALSE, path |-> path]
    ELSE LET r == has_cycle(deps, targets[i], path, rank)
         IN IF r.found THEN r
            ELSE has_cycle_deps(deps, job, targets, i + 1, r.path, rank)

has_cycle_deps(deps, job, targets, i, path, rank) ==
    IF i > Len(targets) THEN [found |-> FALSE, path |-> path \ {job}]
    ELSE LET r == has_cycle(deps, targets[i], path, rank)
         IN IF r.found THEN r
            ELSE has_cycle_deps(deps, job, targets, i + 1, r.path, rank)

Circular(dep_type) == <<"Circular dependency detected in ", dep_type>>

\* JobDependenciesRule._check_cycles
RECURSIVE check_cycles(_, _, _, _, _, _)
check_cycles_StopAtFirst(deps, jobs, i, dep_type, rank, acc) ==
    IF i > Len(jobs) THEN acc
    ELSE IF has_cycle(deps, jobs[i].name, {}, rank).found
    THEN DepViolation(acc, Circular(dep_type), jobs[i].name)
    ELSE check_cycles(deps, jobs, i + 1, dep_type, rank, acc)

check_cycles(deps, jobs, i, dep_type, rank, acc) ==
    IF i > Len(jobs) THEN acc
    ELSE check_cycles(deps, jobs, i + 1, dep_type, rank,
            IF has_cycle(deps, jobs[i].name, {}, rank).found
            THEN DepViolation(acc, Circular(dep_type), jobs[i].name)
            ELSE acc)

\* job.stage if job.stage else "test"
StageOf(job) == IF job.stage # "" THEN job.stage ELSE "test"

\* ci_config.get_all_stages() of the pydantic_gitlab library: the declared
\* stages, or the library's default list when none are declared (the default
\* is an input of the model: default_stages).
get_all_stages(pipeline, default_stages) ==
    IF pipeline.stages # <<>> THEN pipeline.stages ELSE default_stages

DefaultStageLists == { <<".pre", "build", "test", "deploy", ".post">>, <<>> }

Range(seq) == {seq[i] : i \in 1..Len(seq)}

Unreachable == <<"Job may be unreachable (not in first stage and not referenced by other jobs)">>

\* The temporary level change around add_violation: self.level is set, the
\* violation is added at that level, self.level is set back.
AtLevel_NoRestore(acc, level, message, job_name) ==
    DepViolation([acc EXCEPT !.level = level], message, job_name)

AtLevel(acc, level, message, job_name) ==
    LET original_level == acc.level
        swapped == [acc EXCEPT !.level = level]
        added == DepViolation(swapped, message, job_name)
    IN [added EXCEPT !.level = original_level]

\* JobDependenciesRule._check_unreachable_jobs
RECURSIVE flag_unreachable(_, _, _, _, _)
flag_unreachable_IgnoreWhen(jobs, i, first_stage_jobs, referenced_jobs, acc) ==
    IF i > Len(jobs) THEN acc
    ELSE LET job == jobs[i]
         IN flag_unreachable(jobs, i + 1, first_stage_jobs, referenced_jobs,
                IF /\ job.name \notin first_stage_jobs
                   /\ job.name \notin referenced_jobs
                THEN AtLevel(acc, WARNING, Unreachable, job.name)
                ELSE acc)

flag_unreachable(jobs, i, first_stage_jobs, referenced_jobs, acc) ==
    IF i > Len(jobs) THEN acc
    ELSE LET job == jobs[i]
         IN flag_unreachable(jobs, i + 1, first_stage_jobs, referenced_jobs,
                IF /\ job.name \notin first_stage_jobs
                   /\ job.name \notin referenced_jobs
                   /\ job.when \notin {"manual", "delayed"}
                   /\ ~job.rules_manual
                THEN AtLevel(acc, WARNING, Unreachable, job.name)
                ELSE acc)

check_unreachable_jobs(pipeline, default_stages, acc) ==
    LET all_stages == get_all_stages(pipeline, default_stages)
        first_stage == IF all_stages # <<>> THEN all_stages[1] ELSE "build"
        first_stage_jobs ==
            {pipeline.jobs[i].name : i \in
                {k \in 1..Len(pipeline.jobs) :
                    StageOf(pipeline.jobs[k]) \in {first_stage, ".pre"}}}
        referenced_jobs ==
            UNION ({acc.dependencies[n] : n \in DOMAIN acc.dependencies}
                   \cup {acc.needs_dependencies[n] : n \in DOMAIN acc.needs_dependencies})
    IN flag_unreachable(pipeline.jobs, 1, first_stage_jobs, referenced_jobs, acc)

StageOrdering == <<"Job relies on stage ordering but could use 'needs' for faster execution">>

\* stage_jobs.get(stage, []): the names of the jobs of a stage, in job order
stage_jobs(pipeline, stage) ==
    LET inStage == SelectSeq(pipeline.jobs, LAMBDA j : StageOf(j) = stage)
    IN [k \in 1..Len(inStage) |-> inStage[k].name]

\* len(prev_stage_jobs): the jobs of stages[0..i-1], a stage listed twice
\* counting twice
RECURSIVE prev_stage_count(_, _)
prev_stage_count(pipeline, i) ==
    IF i = 0 THEN 0
    ELSE Len(stage_jobs(pipeline, pipeline.stages[i])) + prev_stage_count(pipeline, i - 1)

ManyPreviousJobs == 3

RECURSIVE flag_stage_jobs(_, _, _, _, _)
flag_stage_jobs(pipeline, i, names, k, acc) ==
    IF k > Len(names) THEN acc
    ELSE flag_stage_jobs(pipeline, i, names, k + 1,
            IF /\ acc.needs_dependencies[names[k]] = {}
               /\ prev_stage_count(pipeline, i - 1) > ManyPreviousJobs
            THEN AtLevel(acc, INFO, StageOrdering, names[k])
            ELSE acc)

\* JobDependenciesRule._check_stage_optimization; i is the 1-based position
\* of the stage in stages (the loop starts at the second stage).
RECURSIVE stage_loop(_, _, _)
stage_loop(pipeline, i, acc) ==
    IF i > Len(pipeline.stages) THEN acc
    ELSE stage_loop(pipeline, i + 1,
            flag_stage_jobs(pipeline, i, stage_jobs(pipeline, pipeline.stages[i]), 1, acc))

check_stage_optimization_TwoStages(pipeline, acc) ==
    IF pipeline.stages = <<>> \/ Len(pipeline.stages) < 2 THEN acc
    ELSE stage_loop(pipeline, 2, acc)

check_stage_optimization(pipeline, acc) ==
    IF pipeline.stages = <<>> \/ Len(pipeline.stages) <= 2 THEN acc
    ELSE stage_loop(pipeline, 2, acc)

\* JobDependenciesRule.check, for a rule whose level is `level`.
dependencies_check_OneGraph(pipeline, level, rank, default_stages) ==
    LET job_names == {pipeline.jobs[i].name : i \in 1..Len(pipeline.jobs)}
        start == [violations |-> <<>>, level |-> level,
                  dependencies |-> [n \in job_names |-> {}],
                  needs_dependencies |-> [n \in job_names |-> {}]]
        built == build_dependency_graph(pipeline.jobs, 1, job_names, rank, start)
        both == [n \in job_names |-> built.dependencies[n] \cup built.needs_dependencies[n]]
        cyc1 == check_cycles(both, pipeline.jobs, 1, "dependencies", rank, built)
        cyc2 == check_cycles(built.needs_dependencies, pipeline.jobs, 1, "needs", rank, cyc1)
        unreach == check_unreachable_jobs(pipeline, default_stages, cyc2)
    IN IF pipeline.jobs = <<>> THEN start
       ELSE check_stage_optimization(pipeline, unreach)

dependencies_check(pipeline, level, rank, default_stages) ==
    LET job_names == {pipeline.jobs[i].name : i \in 1..Len(pipeline.jobs)}
        start == [violations |-> <<>>, level |-> level,
                  dependencies |-> [n \in job_names |-> {}],
                  needs_dependencies |-> [n \in job_names |-> {}]]
        built == build_dependency_graph(pipeline.jobs, 1, job_names, rank, start)
        cyc1 == check_cycles(built.dependencies, pipeline.jobs, 1, "dependencies", rank, built)
        cyc2 == check_cycles(built.needs_dependencies, pipeline.jobs, 1, "needs", rank, cyc1)
        unreach == check_unreachable_jobs(pipeline, default_stages, cyc2)
    IN IF pipeline.jobs = <<>> THEN start
       ELSE check_stage_optimization(pipeline, unreach)

\* The rule instance and what its check call returned: pc is "idle" (no call
\* is made), "ready" (about to be called) or "done" (the call has returned).
DepState(pc, level, violations, dependencies, needs_dependencies) ==
    [pc |-> pc, level |-> level, violations |-> violations,
     dependencies |-> dependencies, needs_dependencies |-> needs_dependencies]

CheckDependencies(rank, default_stages) ==
    /\ dep_out.pc = "ready"
    /\ LET out == dependencies_check(ci, dep_out.level, rank, default_stages)
       IN dep_out' = DepState("done", out.level, out.violations, out.dependencies,
                              out.needs_dependencies)
    /\ UNCHANGED ci
    /\ UNCHANGED <<engine_vars, matrix_vars, fanout_vars, walk_vars>>

\* The engine's loop over the files comes to the next file: the same rule
\* instance, as check left it, is handed the next pipeline and a new result.
CheckNextFile(pipelines) ==
    /\ dep_out.pc = "done"
    /\ ci' \in pipelines
    /\ dep_out' = DepState("ready", dep_out.level, <<>>, <<>>, <<>>)
    /\ UNCHANGED <<engine_vars, matrix_vars, fanout_vars, walk_vars>>

\* ------------------------------------------------- rules/optimization.py
\* ParallelMatrixLimitRule (GL033)

MatrixLimit == 200

\* A value of a matrix entry: a list of n values, a scalar (str, int, float,
\* bool), or anything else (None, a nested map).
Value(kind, n) == [kind |-> kind, n |-> n]

\* An item of a matrix list: a map (its entries' values in dict order) or
\* anything else.
Item(kind, entries) == [kind |-> kind, entries |-> entries]

\* A matrix: None, a list of items, or something else (a map, a string);
\* truthy is what `not matrix` tests.
Matrix(kind, items, truthy) == [kind |-> kind, items |-> items, truthy |-> truthy]

MatrixNone == Matrix("none", <<>>, FALSE)

MatrixList(items) == Matrix("list", items, items # <<>>)

MatrixOther(truthy) == Matrix("other", <<>>, truthy)

\* A parallel setting: an int n (a bool is an int), a dict (has_matrix: the
\* key "matrix" is present), an object (has_matrix: the attribute exists),
\* None or any other value; truthy is what `not job.parallel` tests.
Parallel(kind, n, has_matrix, matrix, truthy) ==
    [kind |-> kind, n |-> n, has_matrix |-> has_matrix, matrix |-> matrix,
     truthy |-> truthy]

ParallelInt(n) == Parallel("int", n, FALSE, MatrixNone, n # 0)

ParallelDict(has_matrix, matrix, truthy) == Parallel("dict", 0, has_matrix, matrix, truthy)

ParallelObject(has_matrix, matrix) == Parallel("object", 0, has_matrix, matrix, TRUE)

ParallelNone == Parallel("none", 0, FALSE, MatrixNone, FALSE)

ParallelOther == Parallel("other", 0, FALSE, MatrixNone, TRUE)

\* What a call gives back: a value, or an exception
Return(value) == [raised |-> FALSE, value |-> value]

Raise == [raised |-> TRUE, value |-> 0]

\* _calculate_matrix_combinations: the loop over matrix_item.items()
RECURSIVE matrix_item_combinations(_, _, _)
matrix_item_combinations_LastWins(entries, i, combinations) ==
    IF i > Len(entries) THEN Return(combinations)
    ELSE matrix_item_combinations(entries, i + 1,
            IF entries[i].kind = "list" THEN entries[i].n ELSE combinations)

matrix_item_combinations_NoTypeCheck(entries, i, combinations) ==
    IF i > Len(entries) THEN Return(combinations)
    ELSE IF entries[i].kind # "list" THEN Raise
    ELSE matrix_item_combinations(entries, i + 1, combinations * entries[i].n)

matrix_item_combinations(entries, i, combinations) ==
    IF i > Len(entries) THEN Return(combinations)
    ELSE matrix_item_combinations(entries, i + 1,
            IF entries[i].kind = "list" THEN combinations * entries[i].n
            ELSE IF entries[i].kind = "scalar" THEN combinations * 1
            ELSE combinations)

\* _calculate_matrix_combinations: the loop over the matrix list
RECURSIVE matrix_list_total(_, _, _)
matrix_list_total(items, i, total_jobs) ==
    IF i > Len(items) THEN Return(total_jobs)
    ELSE IF items[i].kind = "dict"
    THEN LET c == matrix_item_combinations(items[i].entries, 1, 1)
         IN IF c.raised THEN c
            ELSE matrix_list_total(items, i + 1, total_jobs + c.value)
    ELSE matrix_list_total(items, i + 1, total_jobs + 1)

\* ParallelMatrixLimitRule._calculate_matrix_combinations
calculate_matrix_combinations(matrix) ==
    IF ~matrix.truthy THEN Return(0)
    ELSE IF matrix.kind = "list" THEN matrix_list_total(matrix.items, 1, 0)
    ELSE Return(1)

\* ParallelMatrixLimitRule._calculate_matrix_jobs
calculate_matrix_jobs(parallel_config) ==
    IF parallel_config.kind = "int" THEN Return(parallel_config.n)
    ELSE IF parallel_config.kind = "dict" /\ parallel_config.has_matrix
    THEN calculate_matrix_combinations(parallel_config.matrix)
    ELSE IF /\ parallel_config.kind = "object" /\ parallel_config.has_matrix
            /\ parallel_config.matrix.truthy
    THEN calculate_matrix_combinations(parallel_config.matrix)
    ELSE Return(1)

\* if total_jobs > 200
exceeds_limit_AtLeast(total_jobs) == total_jobs >= MatrixLimit

exceeds_limit(total_jobs) == total_jobs > MatrixLimit

GL033 == "GL033"

MatrixMessage(total_jobs) ==
    <<"Parallel matrix will generate ", total_jobs,
      " jobs, exceeding GitLab's limit of 200">>

\* ParallelMatrixLimitRule.check: the loop over the jobs (job i is named by
\* its position); totals records what _calculate_matrix_jobs returned for the
\* jobs it was called for.
RECURSIVE matrix_check(_, _, _, _)
matrix_check(settings, i, level, acc) ==
    IF i > Len(settings) \/ acc.raised THEN acc
    ELSE IF ~settings[i].truthy THEN matrix_check(settings, i + 1, level, acc)
    ELSE LET total_jobs == calculate_matrix_jobs(settings[i])
             counted == [acc EXCEPT !.totals = Append(@, [job |-> i, total |-> total_jobs.value])]
         IN IF total_jobs.raised THEN [acc EXCEPT !.raised = TRUE]
            ELSE matrix_check(settings, i + 1, level,
                    IF exceeds_limit(total_jobs.value)
                    THEN [counted EXCEPT !.violations =
                            RuleAddViolation(@, 1, [rule_id |-> GL033, level |-> level],
                                             MatrixMessage(total_jobs.value), 0, i)]
                    ELSE counted)

\* The rule's check call: pc is "idle", "ready" or "done"
MatrixState(pc, level, totals, violations, raised) ==
    [pc |-> pc, level |-> level, totals |-> totals, violations |-> violations,
     raised |-> raised]

CheckMatrix ==
    /\ matrix_out.pc = "ready"
    /\ LET out == matrix_check(parallel, 1, matrix_out.level,
                               MatrixState("ready", matrix_out.level, <<>>, <<>>, FALSE))
       IN matrix_out' = [out EXCEPT !.pc = "done"]
    /\ UNCHANGED parallel
    /\ UNCHANGED <<engine_vars, deps_vars, fanout_vars, walk_vars>>

\* ------------------------------------- one rule instance, several threads
\* JobDependenciesRule.check called for several files at once on the same
\* instance.  What check adds, and in which order, does not depend on
\* self.level; the level of each violation and self.level itself do.  A
\* thread's plan is the sequence of its add_violation calls, each plain or
\* inside a temporary level change; a step is one read or write of self.level.

FanRank == CHOOSE rank \in Ranks : rank["a"] < rank["b"]

FanDefaultStages == <<".pre", "build", "test", "deploy", ".post">>

PlanStep(message, job_name, temporary) ==
    [message |-> message, job_name |-> job_name, temporary |-> temporary]

FanPlan(pipeline) ==
    LET out == dependencies_check(pipeline, ERROR, FanRank, FanDefaultStages).violations
    IN [k \in 1..Len(out) |->
          PlanStep(out[k].message, out[k].job_name,
                   IF out[k].message = Unreachable THEN WARNING
                   ELSE IF out[k].message = StageOrdering THEN INFO
                   ELSE "none")]

Thread(pipeline, plan, next, pc, original_level, violations) ==
    [pipeline |-> pipeline, plan |-> plan, next |-> next, pc |-> pc,
     original_level |-> original_level, violations |-> violations]

FanState(configured, level, threads) ==
    [configured |-> configured, level |-> level, threads |-> threads]

FanAppend(t) ==
    LET th == fan.threads[t]
        op == th.plan[th.next]
    IN RuleAddViolation(th.violations, t, [rule_id |-> GL003, level |-> fan.level],
                        op.message, 0, op.job_name)

\* self.add_violation(...) outside a level change
FanPlain(t) ==
    LET th == fan.threads[t]
    IN /\ th.pc = "next" /\ th.next <= Len(th.plan)
       /\ th.plan[th.next].temporary = "none"
       /\ fan' = [fan EXCEPT !.threads[t].violations = FanAppend(t),
                             !.threads[t].next = @ + 1]

\* original_level = self.level
FanSave(t) ==
    LET th == fan.threads[t]
    IN /\ th.pc = "next" /\ th.next <= Len(th.plan)
       /\ th.plan[th.next].temporary # "none"
       /\ fan' = [fan EXCEPT !.threads[t].original_level = fan.level,
                             !.threads[t].pc = "set"]

\* self.level = LintLevel.WARNING (or INFO)
FanSet(t) ==
    LET th == fan.threads[t]
    IN /\ th.pc = "set"
       /\ fan' = [fan EXCEPT !.level = th.plan[th.next].temporary,
                             !.threads[t].pc = "add"]

\* self.add_violation(...) inside the level change
FanAdd(t) ==
    LET th == fan.threads[t]
    IN /\ th.pc = "add"
       /\ fan' = [fan EXCEPT !.threads[t].violations = FanAppend(t),
                             !.threads[t].pc = "restore"]

\* self.level = original_level
FanRestore(t) ==
    LET th == fan.threads[t]
    IN /\ th.pc = "restore"
       /\ fan' = [fan EXCEPT !.level = th.original_level,
                             !.threads[t].pc = "next",
                             !.threads[t].next = @ + 1]

\* check returns
FanReturn(t) ==
    LET th == fan.threads[t]
    IN /\ th.pc = "next" /\ th.next > Len(th.plan)
       /\ fan' = [fan EXCEPT !.threads[t].pc = "done"]

FanStep(t) ==
    /\ \/ FanPlain(t) \/ FanSave(t) \/ FanSet(t) \/ FanAdd(t) \/ FanRestore(t)
       \/ FanReturn(t)
    /\ UNCHANGED <<engine_vars, deps_vars, matrix_vars, walk_vars>>

\* --------------------------------- _check_cycles, statement by statement
\* The traversal of JobDependenciesRule._check_cycles on one graph as the
\* interpreter runs it: an outer loop over the keys of deps, and the calls of
\* has_cycle on a stack, each frame holding its job and the targets its for
\* loop has still to visit.  path is the one set object every call of a
\* traversal shares.

\* The frames of has_cycle a traversal is followed for: more than the jobs of
\* the model plus one
MaxStack == 6

Frame(job, todo) == [job |-> job, todo |-> todo]

WalkState(deps, keys, i, pc, stack, path, arg, ret, reported) ==
    [deps |-> deps, keys |-> keys, i |-> i, pc |-> pc, stack |-> stack, path |-> path,
     arg |-> arg, ret |-> ret, reported |-> reported]

\* if job in path
on_path_Never(job, path) == FALSE

on_path(job, path) == job \in path

\* for job_name in deps: if has_cycle(job_name, set())
WalkNextKey ==
    /\ walk.pc = "loop" /\ walk.i <= Len(walk.keys)
    /\ walk' = [walk EXCEPT !.pc = "enter", !.arg = walk.keys[walk.i], !.path = {}]

\* has_cycle is entered: return True for a job on the path, else add the job
\* to the path and start the loop over its targets
WalkEnter(rank) ==
    /\ walk.pc = "enter" /\ Len(walk.stack) < MaxStack
    /\ walk' = IF on_path(walk.arg, walk.path)
               THEN [walk EXCEPT !.pc = "return", !.ret = TRUE]
               ELSE [walk EXCEPT !.pc = "iterate",
                                 !.path = @ \cup {walk.arg},
                                 !.stack = Append(@, Frame(walk.arg,
                                              InOrder(walk.deps[walk.arg], rank)))]

\* for dep in deps.get(job, set()): the call of has_cycle(dep, path)
WalkCall ==
    /\ walk.pc = "iterate" /\ walk.stack[Len(walk.stack)].todo # <<>>
    /\ walk' = [walk EXCEPT !.pc = "enter",
                            !.arg = Head(walk.stack[Len(walk.stack)].todo),
                            !.stack[Len(walk.stack)].todo = Tail(@)]

\* the loop is exhausted: path.remove(job); return False
WalkExhausted ==
    /\ walk.pc = "iterate" /\ walk.stack[Len(walk.stack)].todo = <<>>
    /\ walk' = [walk EXCEPT !.pc = "return", !.ret = FALSE,
                            !.path = @ \ {walk.stack[Len(walk.stack)].job},
                            !.stack = SubSeq(@, 1, Len(@) - 1)]

\* a call returns into the loop of its caller: True is returned at once,
\* False goes on with the next target
WalkReturn ==
    /\ walk.pc = "return" /\ walk.stack # <<>>
    /\ walk' = IF walk.ret
               THEN [walk EXCEPT !.stack = SubSeq(@, 1, Len(@) - 1)]
               ELSE [walk EXCEPT !.pc = "iterate"]

\* the outermost call returns into _check_cycles: add_violation when True
WalkReport ==
    /\ walk.pc = "return" /\ walk.stack = <<>>
    /\ walk' = [walk EXCEPT !.pc = "loop", !.i = @ + 1,
                            !.reported = IF walk.ret THEN Append(@, walk.keys[walk.i])
                                         ELSE @]

\* _check_cycles returns
WalkDone ==
    /\ walk.pc = "loop" /\ walk.i > Len(walk.keys)
    /\ walk' = [walk EXCEPT !.pc = "done"]

WalkStep(rank) ==
    /\ \/ WalkNextKey \/ WalkEnter(rank) \/ WalkCall \/ WalkExhausted \/ WalkReturn
       \/ WalkReport \/ WalkDone
    /\ UNCHANGED <<engine_vars, deps_vars, matrix_vars, fanout_vars>>

\* ------------------------------------------------------ inputs and Init

Pipeline(jobs, stages) == [jobs |-> jobs, stages |-> stages]

NoPipeline == Pipeline(<<>>, <<>>)

RECURSIVE SubsetsUpTo(_, _)
SubsetsUpTo(S, k) ==
    IF k = 0 THEN {{}}
    ELSE LET smaller == SubsetsUpTo(S, k - 1)
         IN smaller \cup {T \cup {x} : T \in smaller, x \in S}

PartialMaps(keys, values, k) ==
    UNION {[D -> values] : D \in SubsetsUpTo(keys, k)}

RawConfig(strict_mode, max_violations, fail_on_warnings, raw_rules, categories) ==
    [strict_mode |-> strict_mode, max_violations |-> max_violations,
     fail_on_warnings |-> fail_on_warnings, rules |-> raw_rules,
     categories |-> categories]

NoEntries == [x \in {} |-> TRUE]

\* LintEngine.__init__: how = "object" is a LinterConfig instance handed in,
\* how = "file" a path (or None, with or without a discovered file) that
\* ConfigLoader.load_config resolves.
EngineInit(raws, hows) ==
    /\ \E raw \in raws, how \in hows :
        /\ config = IF how = "file" THEN load_config(raw) ELSE LinterConfig(raw)
        /\ loader_config = (how = "file")
        /\ document = raw
    /\ rules = <<>>
    /\ reglog = <<>>
    /\ nconf = 0
    /\ call = CallRecord("init", <<>>, "returned")
    /\ results = <<>>
    /\ ran = <<>>

DepsIdle ==
    /\ ci = NoPipeline
    /\ dep_out = DepState("idle", ERROR, <<>>, <<>>, <<>>)

MatrixIdle ==
    /\ parallel = <<>>
    /\ matrix_out = MatrixState("idle", ERROR, <<>>, <<>>, FALSE)

FanIdle == fan = FanState(ERROR, ERROR, <<>>)

WalkIdle == walk = WalkState(<<>>, <<>>, 1, "idle", <<>>, {}, "", FALSE, <<>>)

\* Every rule applicable, one finding each, nothing raises.
SimpleBeh == [rid \in RuleIds |-> Behaviour("yes", 1, FALSE)]

File(kind, beh) == [kind |-> kind, beh |-> beh]

SimpleFiles == {File("ok", SimpleBeh), File("missing", SimpleBeh)}

EmitCounts == {0, 1}

FaultBehaviours ==
    {Behaviour("no", 0, FALSE), Behaviour("raise", 0, FALSE)}
    \cup {Behaviour("yes", n, r) : n \in EmitCounts, r \in BOOLEAN}

FaultFiles ==
    {File("ok", b) : b \in [RuleIds -> FaultBehaviours]}
    \cup {File(k, SimpleBeh) : k \in ParseKinds \ {"ok"}}

ListedFiles == {File(k, SimpleBeh) : k \in {"ok", "missing", "invalid"}}

CheckEmitCounts == {0, 2}

CheckFiles ==
    {File("ok", [rid \in RuleIds |-> Behaviour("yes", n[rid], FALSE)]) :
        n \in [RuleIds -> CheckEmitCounts]}
    \cup {File("missing", SimpleBeh)}

\* ---- the engine's life: registration, reconfiguration, linting one file

EngineRaws ==
    {RawConfig(FALSE, NoLimit, FALSE, NoEntries, cats) :
        cats \in PartialMaps(Categories, BOOLEAN, MaxCfgEntries)}

Init == EngineInit(EngineRaws, {"file"}) /\ DepsIdle /\ MatrixIdle /\ FanIdle /\ WalkIdle

\* A lint call leaves config, rules and the histories of registration as it
\* found them, so a lint call made right after another reaches no state that
\* the same call made before it does not reach: lint calls are taken from the
\* states that no lint call has just left.
NotJustLinted == call.op \notin {"lint_file", "lint_files"}

Next ==
    \/ \E cls \in RuleClasses : RegisterRule(cls)
    \/ \E rule_id \in RuleIds, enabled \in BOOLEAN, level \in {"none", INFO} :
          ConfigureRule(rule_id, enabled, level)
    \/ NotJustLinted /\ LintFileIn(SimpleFiles, {"none"})

Spec == Init /\ [][Next]_vars

\* ---- rules that fail and files that do not parse

FaultRaws ==
    {RawConfig(strict, NoLimit, FALSE, NoEntries, cats) :
        strict \in BOOLEAN,
        cats \in {NoEntries, [c \in {"security"} |-> FALSE]}}

InitFault == EngineInit(FaultRaws, {"file"}) /\ DepsIdle /\ MatrixIdle /\ FanIdle /\ WalkIdle

NextFault ==
    \/ \E cls \in RuleClasses : RegisterRule(cls)
    \/ NotJustLinted /\ LintFileIn(FaultFiles, StrictArgs)
    \/ NotJustLinted /\ LintFilesIn(ListedFiles, StrictArgs)

SpecFault == InitFault /\ [][NextFault]_vars

\* ---- the resolver: what register_rule writes into a rule

ConfigRaws ==
    {RawConfig(FALSE, NoLimit, FALSE, raw_rules, cats) :
        raw_rules \in PartialMaps(RuleIds, RawEntries, MaxCfgEntries),
        cats \in PartialMaps(Categories, BOOLEAN, MaxCfgEntries)}

InitConfig ==
    EngineInit(ConfigRaws, {"file", "object"}) /\ DepsIdle /\ MatrixIdle /\ FanIdle /\ WalkIdle

NextConfig == RegisterRules(CheckRuleList)

SpecConfig == InitConfig /\ [][NextConfig]_vars

\* ---- the check command: register the rules, lint the files, decide

MaxViolationsValues == {NoLimit, Limit(0), Limit(1), Limit(2), Limit(3)}

CheckRaws ==
    {RawConfig(FALSE, mv, fow, raw_rules, NoEntries) :
        mv \in MaxViolationsValues, fow \in BOOLEAN,
        raw_rules \in {NoEntries,
                       [r \in {"GL027"} |-> [enabled |-> "unset", level |-> INFO]]}}

InitCheck == EngineInit(CheckRaws, {"file"}) /\ DepsIdle /\ MatrixIdle /\ FanIdle /\ WalkIdle

\* commands/check.py, check: the engine is built (Init), the rules are
\* registered, the files are linted, should_fail decides the exit status.
CheckRegister == call.op = "init" /\ RegisterRules(CheckRuleList)

CheckLint == call.op = "register_rules" /\ LintFilesIn(CheckFiles, {"true", "false"})

CheckExit == call.op = "lint_files" /\ ShouldFail

NextCheck == CheckRegister \/ CheckLint \/ CheckExit

SpecCheck == InitCheck /\ [][NextCheck]_vars

\* ---- JobDependenciesRule.check on one pipeline

Edges(n) ==
    {<<"dependencies", JobOrder[i], to>> : i \in 1..n, to \in JobNames}
    \cup {<<"needs", JobOrder[i], to>> : i \in 1..n, to \in JobNames \cup {""}}

Targets(E, graph, name) == {e[3] : e \in {d \in E : d[1] = graph /\ d[2] = name}}

GraphPipelines(edges) ==
    UNION {
        {Pipeline([i \in 1..n |->
                      Job(JobOrder[i], "", "", FALSE,
                          Targets(E, "dependencies", JobOrder[i]),
                          Targets(E, "needs", JobOrder[i]))],
                  <<>>) : E \in SubsetsUpTo(Edges(n), edges)}
        : n \in 0..Len(JobOrder)}

InitDeps ==
    /\ EngineInit({RawConfig(FALSE, NoLimit, FALSE, NoEntries, NoEntries)}, {"file"})
    /\ ci \in GraphPipelines(MaxEdges)
    /\ \E level \in LintLevel : dep_out = DepState("ready", level, <<>>, <<>>, <<>>)
    /\ MatrixIdle
    /\ FanIdle
    /\ WalkIdle

NextDeps == \E rank \in Ranks, default_stages \in DefaultStageLists :
                CheckDependencies(rank, default_stages)

SpecDeps == InitDeps /\ [][NextDeps]_vars

\* ---- JobDependenciesRule.check on a staged pipeline

StageLists ==
    { <<>>, <<"build", "test">>, <<"build", "test", "deploy">>,
      <<"deploy", "test", "build">> }

\* Job "a": any stage, manual or delayed or with a manual rule or none of
\* these, with or without a need of "b"
FocusJobs ==
    {Job("a", stage, wr[1], wr[2], {}, needs) :
        stage \in {"", "build", "test", "deploy", ".pre"},
        wr \in {<<"", FALSE>>, <<"manual", FALSE>>, <<"delayed", FALSE>>, <<"", TRUE>>},
        needs \in {{}, {"b"}}}

\* Job "b", when present: it may reference "a" in either graph
ReferringJobs ==
    {<<>>} \cup
    {<<Job("b", stage, "", FALSE, dn[1], dn[2])>> :
        stage \in {"build", "deploy"},
        dn \in {<<{}, {}>>, <<{"a"}, {}>>, <<{}, {"a"}>>}}

FillerNames == <<"f1", "f2", "f3", "f4", "f5", "f6">>

\* in_build jobs of stage build, then in_test jobs without a stage
Fillers(in_build, in_test) ==
    [i \in 1..(in_build + in_test) |->
        Job(FillerNames[i], IF i <= in_build THEN "build" ELSE "", "", FALSE, {}, {})]

StagedPipelines(fillers) ==
    UNION {
        {Pipeline(<<a>> \o b \o Fillers(in_build, in_test), stages) :
            a \in FocusJobs, b \in ReferringJobs,
            in_build \in 0..(fillers - in_test), stages \in StageLists}
        : in_test \in 0..1}

InitStages ==
    /\ EngineInit({RawConfig(FALSE, NoLimit, FALSE, NoEntries, NoEntries)}, {"object"})
    /\ ci \in StagedPipelines(MaxFillers)
    /\ dep_out = DepState("ready", ERROR, <<>>, <<>>, <<>>)
    /\ MatrixIdle
    /\ FanIdle
    /\ WalkIdle

NextStages == \E rank \in Ranks, default_stages \in DefaultStageLists :
                  CheckDependencies(rank, default_stages)

SpecStages == InitStages /\ [][NextStages]_vars

\* ---- JobDependenciesRule.check: which jobs are flagged unreachable

\* Job "a": any stage, manual or delayed or with a manual rule or none of
\* these, referencing nothing, itself or "b"
SelfReferringJobs ==
    {Job("a", stage, wr[1], wr[2], dn[1], dn[2]) :
        stage \in {"", "build", "deploy", ".pre"},
        wr \in {<<"", FALSE>>, <<"manual", FALSE>>, <<"delayed", FALSE>>, <<"", TRUE>>},
        dn \in {<<{}, {}>>, <<{"a"}, {}>>, <<{}, {"a"}>>, <<{}, {"a", "b"}>>}}

ReachPipelines ==
    {Pipeline(<<a>> \o b, stages) :
        a \in SelfReferringJobs, b \in ReferringJobs,
        stages \in {<<"build", "test">>, <<"build", "test", "deploy">>}}

InitReach ==
    /\ EngineInit({RawConfig(FALSE, NoLimit, FALSE, NoEntries, NoEntries)}, {"file"})
    /\ ci \in ReachPipelines
    /\ \E level \in LintLevel : dep_out = DepState("ready", level, <<>>, <<>>, <<>>)
    /\ MatrixIdle
    /\ FanIdle
    /\ WalkIdle

NextReach ==
    \/ \E rank \in Ranks, default_stages \in DefaultStageLists :
          CheckDependencies(rank, default_stages)
    \/ CheckNextFile(ReachPipelines)

SpecReach == InitReach /\ [][NextReach]_vars

\* ---- ParallelMatrixLimitRule.check on one pipeline

ListLengths == {0, 2, 3, 15}

Values == {Value("list", n) : n \in ListLengths} \cup {Value("scalar", 0), Value("other", 0)}

\* The matrix items that count for `cells` cells: a map with that many
\* entries; the empty map and a non-map item count for one.
ItemsOfSize(cells) ==
    {Item("dict", entries) : entries \in [1..cells -> Values]}
    \cup (IF cells = 1 THEN {Item("dict", <<>>), Item("other", <<>>)} ELSE {})

RECURSIVE ItemLists(_)
ItemLists(cells) ==
    {<<>>} \cup UNION {
        {<<item>> \o rest : item \in ItemsOfSize(c), rest \in ItemLists(cells - c)}
        : c \in 1..cells}

Matrices(cells) ==
    {MatrixList(items) : items \in ItemLists(cells)}
    \cup {MatrixNone, MatrixOther(TRUE), MatrixOther(FALSE)}

ParallelInts == {0, 1, 2, 199, 200, 201}

ParallelSettings(cells) ==
    {ParallelInt(n) : n \in ParallelInts}
    \cup {ParallelDict(TRUE, m, TRUE) : m \in Matrices(cells)}
    \cup {ParallelDict(FALSE, MatrixNone, truthy) : truthy \in BOOLEAN}
    \cup {ParallelObject(TRUE, m) : m \in Matrices(cells)}
    \cup {ParallelObject(FALSE, MatrixNone), ParallelNone, ParallelOther}

\* One job, or a first job without a setting or over the limit and a second
\* job with an integer setting
MatrixPipelines(cells) ==
    {<<p>> : p \in ParallelSettings(cells)}
    \cup {<<q, ParallelInt(n)>> : q \in {ParallelNone, ParallelInt(201)}, n \in ParallelInts}

InitMatrix ==
    /\ EngineInit({RawConfig(FALSE, NoLimit, FALSE, NoEntries, NoEntries)}, {"file"})
    /\ DepsIdle
    /\ parallel \in MatrixPipelines(MaxCells)
    /\ matrix_out = MatrixState("ready", ERROR, <<>>, <<>>, FALSE)
    /\ FanIdle
    /\ WalkIdle

NextMatrix == CheckMatrix

SpecMatrix == InitMatrix /\ [][NextMatrix]_vars

\* ---- two files checked at once by the same JobDependenciesRule

Threads == {1, 2}

\* No violation; an unreachable job; a missing need and an unreachable job; a
\* cycle; an unreachable job that also relies on stage ordering
FanPipelines ==
    { Pipeline(<<Job("a", ".pre", "", FALSE, {}, {})>>, <<>>),
      Pipeline(<<Job("a", "", "", FALSE, {}, {})>>, <<>>),
      Pipeline(<<Job("a", "", "", FALSE, {}, {"c"})>>, <<>>),
      Pipeline(<<Job("a", "", "", FALSE, {"b"}, {}), Job("b", "", "", FALSE, {"a"}, {})>>,
               <<>>),
      Pipeline(<<Job("a", "test", "", FALSE, {}, {})>> \o Fillers(ManyPreviousJobs + 1, 0),
               <<"build", "test", "deploy">>) }

InitFanout ==
    /\ EngineInit({RawConfig(FALSE, NoLimit, FALSE, NoEntries, NoEntries)}, {"file"})
    /\ DepsIdle
    /\ MatrixIdle
    /\ WalkIdle
    /\ \E level \in LintLevel, pipelines \in [Threads -> FanPipelines] :
        fan = FanState(level, level,
                       [t \in Threads |->
                           Thread(pipelines[t], FanPlan(pipelines[t]), 1, "next", level, <<>>)])

NextFanout == \E t \in Threads : FanStep(t)

SpecFanout == InitFanout /\ [][NextFanout]_vars

\* ---- _check_cycles on one graph

\* The graphs over the jobs with at most `edges` edges
Graphs(edges) ==
    {deps \in [JobNames -> SUBSET JobNames] :
        Cardinality({e \in JobNames \X JobNames : e[2] \in deps[e[1]]}) <= edges}

InitWalk ==
    /\ EngineInit({RawConfig(FALSE, NoLimit, FALSE, NoEntries, NoEntries)}, {"file"})
    /\ DepsIdle
    /\ MatrixIdle
    /\ FanIdle
    /\ \E deps \in Graphs(MaxEdges), keys \in {JobOrder, <<"c", "b", "a">>} :
        walk = WalkState(deps, keys, 1, "loop", <<>>, {}, "", FALSE, <<>>)

NextWalk == \E rank \in Ranks : WalkStep(rank)

\* The interpreter runs the next statement whenever there is one
SpecWalk == InitWalk /\ [][NextWalk]_vars /\ WF_vars(NextWalk)

\* ------------------------------------------------------------- claims

\* The parsed file of the most recent lint_file call and its Result
Linted == call.op = "lint_file" /\ call.ret = "returned" /\ results[1].parse_error = ""

BehOf(rule) == call.files[1].beh[rule.rule_id]

Fails(b) == b.applicable = "raise" \/ (b.applicable = "yes" /\ b.raises)

ViolationsOf(violations, rule_id) ==
    {k \in 1..Len(violations) : violations[k].rule_id = rule_id}

FindingsOf(violations, rule_id) ==
    {k \in ViolationsOf(violations, rule_id) : violations[k].message = Finding}

IsSynthetic(v) == v.message[1] = "Rule execution failed: "

Invoked(rule, step) == \E k \in 1..Len(ran) : ran[k] = Event(1, rule, step)

\* C1: in lint_file on a file that parses, a rule whose is_applicable or check
\* raises stops nothing: the call returns, is_applicable is called on every
\* enabled rule, check is called on every enabled rule that is applicable, and
\* every violation such a rule appends is in the returned Result.
C1_FaultIsolation ==
    call.op = "lint_file" =>
        /\ call.ret = "returned"
        /\ results[1].parse_error = "" =>
            \A i \in 1..Len(rules) :
                rules[i].enabled =>
                    /\ Invoked(rules[i], "is_applicable")
                    /\ BehOf(rules[i]).applicable = "yes" =>
                        /\ Invoked(rules[i], "check")
                        /\ Cardinality(FindingsOf(results[1].violations, rules[i].rule_id))
                              = BehOf(rules[i]).emits

C1_Witness ==
    /\ Linted
    /\ \E i, j \in 1..Len(rules) :
        /\ i < j
        /\ rules[i].enabled /\ Fails(BehOf(rules[i]))
        /\ rules[j].enabled /\ BehOf(rules[j]) = Behaviour("yes", 1, FALSE)
        /\ Invoked(rules[j], "check")
        /\ FindingsOf(results[1].violations, rules[j].rule_id) # {}

\* C2 as stated: a rule whose check raises contributes exactly one violation to
\* the Result, at level ERROR, with its rule_id and the failure message.
C2_ExactlyOneViolation ==
    Linted =>
        \A i \in 1..Len(rules) :
            (rules[i].enabled /\ BehOf(rules[i]).applicable = "yes" /\ BehOf(rules[i]).raises) =>
                LET mine == ViolationsOf(results[1].violations, rules[i].rule_id)
                IN /\ Cardinality(mine) = 1
                   /\ \A k \in mine :
                        /\ results[1].violations[k].level = ERROR
                        /\ results[1].violations[k].message
                              = RuleFailed(ErrText(rules[i].rule_id))

\* C2 as amended: the failure of a rule (its check or its is_applicable raising)
\* becomes exactly one synthetic violation, at level ERROR whatever the rule's
\* level, with the rule's id and a message that ends with the failure
\* message; it follows the violations the check had appended before raising,
\* which stay in the Result at the rule's level.
C2_OneSyntheticViolation ==
    Linted =>
        \A i \in 1..Len(rules) :
            (rules[i].enabled /\ Fails(BehOf(rules[i]))) =>
                LET vs == results[1].violations
                    mine == ViolationsOf(vs, rules[i].rule_id)
                    synthetic == {k \in mine : IsSynthetic(vs[k])}
                IN /\ Cardinality(synthetic) = 1
                   /\ Cardinality(mine) = BehOf(rules[i]).emits + 1
                   /\ \A k \in synthetic :
                        /\ vs[k].level = ERROR
                        /\ SubSeq(vs[k].message, 2, Len(vs[k].message))
                              = ErrText(rules[i].rule_id)
                        /\ \A m \in mine : m <= k
                   /\ \A k \in mine \ synthetic :
                        vs[k].message = Finding /\ vs[k].level = rules[i].level

C2_Witness ==
    /\ Linted
    /\ \E i \in 1..Len(rules) :
        /\ rules[i].enabled /\ rules[i].level # ERROR
        /\ BehOf(rules[i]) = Behaviour("yes", 1, TRUE)
        /\ \E k \in ViolationsOf(results[1].violations, rules[i].rule_id) :
              IsSynthetic(results[1].violations[k]) /\ results[1].violations[k].level = ERROR

\* C7: a file that does not parse (missing, empty, YAML error, validation
\* error, unreadable; strict or not) gets a Result with parse_error set and no
\* violations, and no rule is asked is_applicable or check for it; so in every
\* Result of lint_file and lint_files, parse_error set implies no violations.
C7_ParseFailureTerminal ==
    call.op \in {"lint_file", "lint_files"} =>
        /\ call.ret = "returned"
        /\ Len(results) = Len(call.files)
        /\ \A i \in 1..Len(results) :
            /\ call.files[i].kind # "ok" =>
                /\ results[i].parse_error # ""
                /\ results[i].violations = <<>>
                /\ \A k \in 1..Len(ran) : ran[k].file_path # i
            /\ results[i].parse_error # "" => results[i].violations = <<>>

C7_Witness ==
    /\ call.op = "lint_file"
    /\ call.files[1].kind = "invalid"
    /\ ~config.strict_mode
    /\ \E i \in 1..Len(rules) : rules[i].enabled
    /\ results[1].parse_error # "" /\ results[1].violations = <<>> /\ ran = <<>>

FirstReg(rule_id) ==
    CHOOSE k \in 1..Len(reglog) :
        reglog[k] = rule_id /\ \A m \in 1..(k - 1) : reglog[m] # rule_id

LastReg(rule_id) ==
    CHOOSE k \in 1..Len(reglog) :
        reglog[k] = rule_id /\ \A m \in (k + 1)..Len(reglog) : reglog[m] # rule_id

CheckedBefore(r1, r2) ==
    /\ \A a, b \in 1..Len(ran) :
          (ran[a].rule_id = r1.rule_id /\ ran[b].rule_id = r2.rule_id) => a < b
    /\ \A a \in ViolationsOf(results[1].violations, r1.rule_id),
          b \in ViolationsOf(results[1].violations, r2.rule_id) : a < b

BothRan(r1, r2) ==
    /\ r1.enabled /\ r2.enabled
    /\ BehOf(r1).applicable = "yes" /\ BehOf(r2).applicable = "yes"

\* C8 as stated: the enabled, applicable rules are checked in the order of
\* their most recent registration.
C8_MostRecentRegistrationOrder ==
    Linted =>
        \A i, j \in 1..Len(rules) :
            (BothRan(rules[i], rules[j])
             /\ LastReg(rules[i].rule_id) < LastReg(rules[j].rule_id))
                => CheckedBefore(rules[i], rules[j])

\* C8 as amended: the enabled, applicable rules are checked in the order in
\* which their rule_ids were first registered (registering a rule_id again
\* replaces the instance and keeps its place), and their violations are in
\* the Result in that order.
C8_FirstRegistrationOrder ==
    Linted =>
        \A i, j \in 1..Len(rules) :
            (BothRan(rules[i], rules[j])
             /\ FirstReg(rules[i].rule_id) < FirstReg(rules[j].rule_id))
                => CheckedBefore(rules[i], rules[j])

C8_Witness ==
    /\ Linted
    /\ \E i, j \in 1..Len(rules) :
        /\ BothRan(rules[i], rules[j])
        /\ FirstReg(rules[i].rule_id) < FirstReg(rules[j].rule_id)
        /\ LastReg(rules[i].rule_id) > LastReg(rules[j].rule_id)
        /\ Invoked(rules[i], "check") /\ Invoked(rules[j], "check")

\* C9: after any sequence of register_rule calls the registry holds one rule
\* for each rule_id registered so far and none for the others, each being the
\* instance registered last under its rule_id, and lint_file runs only those
\* instances.
C9_LastInstancePerRuleId ==
    /\ call.op = "register_rule" => call.ret = "returned"
    /\ \A rule_id \in RuleIds :
          Cardinality({i \in 1..Len(rules) : rules[i].rule_id = rule_id})
             = IF rule_id \in Range(reglog) THEN 1 ELSE 0
    /\ \A i \in 1..Len(rules) : rules[i].inst = LastReg(rules[i].rule_id)
    /\ \A k \in 1..Len(ran) : ran[k].inst = LastReg(ran[k].rule_id)

C9_Witness ==
    /\ Linted
    /\ \E a, b \in 1..Len(reglog) :
        /\ a < b /\ reglog[a] = reglog[b]
        /\ \E k \in 1..Len(ran) : ran[k].rule_id = reglog[b] /\ ran[k].inst = LastReg(reglog[b])

CategoryDisabled(category) ==
    category \in DOMAIN config.categories /\ ~config.categories[category]

\* C6 as stated: in every state reached by register_rule, configure_rule and
\* lint_file calls, no rule whose category the configuration disables is
\* enabled, and lint_file runs no such rule.
C6_CategoryGatingInvariant ==
    \A k \in 1..Len(ran) : ~CategoryDisabled(ClassOf(ran[k].rule_id).category)

\* C5: with a configuration resolved by ConfigLoader.load_config, register_rule
\* leaves a rule of a category mapped to false disabled whatever its own entry
\* says, and gives every other rule the enabled value of its own entry (true
\* when it has none).
C5_CategoryGatingAtRegistration ==
    (call.op = "register_rules" /\ loader_config) =>
        \A i \in 1..Len(rules) :
            rules[i].enabled =
                IF CategoryDisabled(rules[i].category) THEN FALSE
                ELSE IF rules[i].rule_id \in DOMAIN config.rules
                     THEN config.rules[rules[i].rule_id].enabled
                     ELSE TRUE

C5_Witness ==
    /\ call.op = "register_rules" /\ loader_config
    /\ \E i \in 1..Len(rules) :
        /\ CategoryDisabled(rules[i].category)
        /\ rules[i].rule_id = "GL027"
        /\ rules[i].rule_id \in DOMAIN config.rules
        /\ config.rules[rules[i].rule_id].enabled
        /\ ~rules[i].enabled

\* What lint_file returns for the i-th file of the most recent lint_files call
Produced(i) == lint_file(rules, i, call.files[i], "none").result.violations

\* C3 as stated: with max_violations = N configured (any integer, 0 included),
\* lint_files returns for a file that produced M > N violations its first N
\* violations, and for a file with M <= N violations all of them.
C3_Truncation ==
    (call.op = "lint_files" /\ ~config.max_violations.is_none) =>
        \A i \in 1..Len(results) :
            results[i].violations =
                IF Len(Produced(i)) > config.max_violations.n
                THEN SubSeq(Produced(i), 1, config.max_violations.n)
                ELSE Produced(i)

HasLevel(level) ==
    \E i \in 1..Len(results) : \E k \in 1..Len(results[i].violations) :
        results[i].violations[k].level = level

\* C4: should_fail returns true exactly when some result holds an ERROR
\* violation, or fail_on_warnings is set and some result holds a WARNING
\* violation (so never for INFO violations alone, nor for no violations), and
\* the results it was given are still what lint_files returned.
C4_ShouldFail ==
    call.op = "should_fail" =>
        /\ (call.ret = "true") <=> (HasLevel(ERROR) \/ (config.fail_on_warnings /\ HasLevel(WARNING)))
        /\ call.ret \in {"true", "false"}
        /\ results = lint_files(rules, call.files, "none").results

C4_Witness ==
    /\ call.op = "should_fail" /\ call.ret = "false"
    /\ ~config.fail_on_warnings
    /\ HasLevel(WARNING) /\ HasLevel(INFO) /\ ~HasLevel(ERROR)

KnownJobs == {ci.jobs[i].name : i \in 1..Len(ci.jobs)}

\* The edges a pipeline declares between its jobs, per graph
DeclaredEdges(graph) ==
    UNION {{<<ci.jobs[i].name, t>> :
                t \in (IF graph = "needs" THEN ci.jobs[i].needs ELSE ci.jobs[i].dependencies)
                      \cap KnownJobs}
           : i \in 1..Len(ci.jobs)}

\* A directed cycle (a self-loop included): a closed walk over the edges
HasDirectedCycle(E) ==
    \E n \in 1..Cardinality(KnownJobs) : \E p \in [1..n -> KnownJobs] :
        /\ \A i \in 1..(n - 1) : <<p[i], p[i + 1]>> \in E
        /\ <<p[n], p[1]>> \in E

CircularViolations ==
    {k \in 1..Len(dep_out.violations) :
        dep_out.violations[k].message[1] = "Circular dependency detected in "}

\* C10: for a pipeline whose dependencies graph and needs graph both have no
\* directed cycle, JobDependenciesRule.check adds no "Circular dependency
\* detected" violation.
C10_NoFalseCycle ==
    (/\ dep_out.pc = "done"
     /\ ~HasDirectedCycle(DeclaredEdges("dependencies"))
     /\ ~HasDirectedCycle(DeclaredEdges("needs")))
        => CircularViolations = {}

C10_Witness ==
    /\ dep_out.pc = "done"
    /\ ~HasDirectedCycle(DeclaredEdges("dependencies"))
    /\ ~HasDirectedCycle(DeclaredEdges("needs"))
    /\ {<<"a", "b">>, <<"b", "c">>, <<"a", "c">>} \subseteq DeclaredEdges("dependencies")
    /\ CircularViolations = {}

\* C11: when the dependencies graph (the needs graph) over the known jobs has
\* a directed cycle, a self-dependency included, JobDependenciesRule.check
\* adds at least one circular-dependency violation whose message names that
\* graph.
C11_NoMissedCycle ==
    dep_out.pc = "done" =>
        \A graph \in {"dependencies", "needs"} :
            HasDirectedCycle(DeclaredEdges(graph)) =>
                \E k \in CircularViolations :
                    dep_out.violations[k].message = Circular(graph)

C11_Witness ==
    /\ dep_out.pc = "done"
    /\ {<<"a", "b">>, <<"b", "a">>} \subseteq DeclaredEdges("needs")
    /\ ~HasDirectedCycle(DeclaredEdges("dependencies"))
    /\ \E k \in CircularViolations : dep_out.violations[k].message = Circular("needs")
    /\ \A k \in CircularViolations : dep_out.violations[k].message # Circular("dependencies")

\* The total _calculate_matrix_jobs returned for job i (called for the jobs
\* whose parallel setting is truthy)
Counted(i) == \E j \in 1..Len(matrix_out.totals) : matrix_out.totals[j].job = i

TotalOf(i) ==
    matrix_out.totals[CHOOSE j \in 1..Len(matrix_out.totals) :
                          matrix_out.totals[j].job = i].total

HasMatrix(p) == p.kind \in {"dict", "object"} /\ p.has_matrix

\* A matrix as the CI format defines it: a non-empty list of maps whose
\* values are lists or scalars
IsDimensionMaps(m) ==
    /\ m.kind = "list" /\ m.items # <<>>
    /\ \A i \in 1..Len(m.items) :
        /\ m.items[i].kind = "dict"
        /\ \A k \in 1..Len(m.items[i].entries) :
              m.items[i].entries[k].kind \in {"list", "scalar"}

Factor(value) == IF value.kind = "list" THEN value.n ELSE 1

RECURSIVE ProductOf(_, _)
ProductOf(entries, S) ==
    IF S = {} THEN 1
    ELSE LET k == CHOOSE x \in S : TRUE
         IN Factor(entries[k]) * ProductOf(entries, S \ {k})

RECURSIVE SumOfProducts(_, _)
SumOfProducts(items, S) ==
    IF S = {} THEN 0
    ELSE LET i == CHOOSE x \in S : TRUE
         IN (IF items[i].kind = "dict"
             THEN ProductOf(items[i].entries, DOMAIN items[i].entries)
             ELSE 1)
            + SumOfProducts(items, S \ {i})

Orderings(n) == {f \in [1..n -> 1..n] : \A i, j \in 1..n : i # j => f[i] # f[j]}

Permuted(seq, f) == [i \in 1..Len(seq) |-> seq[f[i]]]

\* C12: for a matrix that is a (non-empty) list of dimension-maps, the
\* calculated job count is the sum over the maps of the product of the lengths
\* of their list-valued entries, scalars counting 1, and it is the same for
\* every permutation of the maps and of the entries of any map.
C12_SumOfProducts ==
    matrix_out.pc = "done" =>
        \A i \in 1..Len(parallel) :
            (Counted(i) /\ HasMatrix(parallel[i]) /\ IsDimensionMaps(parallel[i].matrix)) =>
                LET items == parallel[i].matrix.items
                IN /\ TotalOf(i) = SumOfProducts(items, DOMAIN items)
                   /\ \A f \in Orderings(Len(items)) :
                        calculate_matrix_jobs(
                            [parallel[i] EXCEPT !.matrix = MatrixList(Permuted(items, f))]
                        ) = Return(TotalOf(i))
                   /\ \A m \in 1..Len(items) :
                        \A f \in Orderings(Len(items[m].entries)) :
                            calculate_matrix_jobs(
                                [parallel[i] EXCEPT !.matrix.items[m].entries = Permuted(@, f)]
                            ) = Return(TotalOf(i))

C12_Witness ==
    /\ matrix_out.pc = "done"
    /\ parallel = <<ParallelObject(TRUE, MatrixList(
                        <<Item("dict", <<Value("list", 3), Value("list", 2)>>),
                          Item("dict", <<Value("scalar", 0)>>)>>))>>
    /\ TotalOf(1) = 7

ViolationsOfJob(i) ==
    {k \in 1..Len(matrix_out.violations) : matrix_out.violations[k].job_name = i}

\* C13: ParallelMatrixLimitRule adds a GL033 violation for a job exactly when
\* the total calculated for its parallel setting is greater than 200, and
\* then one whose message has the total and the limit 200; an integer setting
\* is its own total (200: no violation, 201: one); a job without a parallel
\* setting gets none.
C13_OverTheLimit ==
    matrix_out.pc = "done" =>
        \A i \in 1..Len(parallel) :
            /\ (parallel[i].kind = "int" /\ parallel[i].n # 0) =>
                    Counted(i) /\ TotalOf(i) = parallel[i].n
            /\ IF Counted(i) /\ TotalOf(i) > 200
               THEN /\ Cardinality(ViolationsOfJob(i)) = 1
                    /\ \A k \in ViolationsOfJob(i) :
                        /\ matrix_out.violations[k].rule_id = "GL033"
                        /\ matrix_out.violations[k].message[2] = TotalOf(i)
                        /\ matrix_out.violations[k].message[3]
                              = " jobs, exceeding GitLab's limit of 200"
               ELSE ViolationsOfJob(i) = {}
            /\ parallel[i] = ParallelNone => ~Counted(i)

C13_Witness ==
    /\ matrix_out.pc = "done"
    /\ parallel = <<ParallelInt(201), ParallelInt(200)>>
    /\ Cardinality(ViolationsOfJob(1)) = 1
    /\ ViolationsOfJob(2) = {}

\* None or an empty list
IsEmptyMatrix(m) == m.kind = "none" \/ (m.kind = "list" /\ m.items = <<>>)

\* C14 as stated: the calculator returns 0 for an absent or empty matrix,
\* whether the setting is a map with a "matrix" key or an object with a
\* "matrix" attribute, and 1 for a setting that is neither an integer nor a
\* matrix specification; an empty matrix gets no GL033 violation.
C14_EmptyMatrixIsZero ==
    matrix_out.pc = "done" =>
        \A i \in 1..Len(parallel) :
            Counted(i) =>
                /\ (HasMatrix(parallel[i]) /\ IsEmptyMatrix(parallel[i].matrix)) =>
                        TotalOf(i) = 0 /\ ViolationsOfJob(i) = {}
                /\ (parallel[i].kind # "int" /\ ~HasMatrix(parallel[i])) => TotalOf(i) = 1

\* C15: for every parallel setting, malformed ones included, the calculator
\* returns an integer and does not raise: 1 for a setting without a matrix and
\* for a non-empty matrix that is not a list; for a list, the sum of 1 for
\* each item that is not a map and, for each map, the product of the lengths
\* of its list values (any other value counting 1). The setting is as it was.
C15_Total ==
    matrix_out.pc = "done" =>
        /\ ~matrix_out.raised
        /\ \A i \in 1..Len(parallel) :
            parallel[i].truthy =>
                /\ Counted(i)
                /\ TotalOf(i) \in Nat
                /\ (parallel[i].kind # "int" /\ ~HasMatrix(parallel[i])) => TotalOf(i) = 1
                /\ (HasMatrix(parallel[i]) /\ parallel[i].matrix.truthy) =>
                        TotalOf(i) = IF parallel[i].matrix.kind = "list"
                                     THEN SumOfProducts(parallel[i].matrix.items,
                                                        DOMAIN parallel[i].matrix.items)
                                     ELSE 1

C15_TotalAndPure == [](C15_Total) /\ [][parallel' = parallel]_vars

C15_Witness ==
    /\ matrix_out.pc = "done"
    /\ ~matrix_out.raised
    /\ parallel = <<ParallelDict(TRUE, MatrixList(
                        <<Item("other", <<>>),
                          Item("dict", <<Value("other", 0), Value("list", 2)>>)>>), TRUE)>>
    /\ TotalOf(1) = 3

\* The violations of one job with one message
ViolationsAbout(name, message) ==
    {k \in 1..Len(dep_out.violations) :
        dep_out.violations[k].job_name = name /\ dep_out.violations[k].message = message}

JobsOf(p) == {p.jobs[i] : i \in 1..Len(p.jobs)}

\* The stage a job runs in: the default stage is "test"
JobStage(job) == IF job.stage = "" THEN "test" ELSE job.stage

\* Some job names this one among its dependencies or needs
Referenced(job) ==
    \E other \in JobsOf(ci) : job.name \in (other.dependencies \cup other.needs)

\* C16 as stated: with three declared stages, a job of the last stage that no
\* job references and whose when is neither manual nor delayed gets exactly
\* one "may be unreachable" violation, with when manual or delayed it gets
\* none; a job of the first declared stage or of .pre gets none.
C16_UnreachableByWhen ==
    dep_out.pc = "done" =>
        \A job \in JobsOf(ci) :
            /\ (Len(ci.stages) = 3 /\ JobStage(job) = ci.stages[3]) =>
                /\ (~Referenced(job) /\ job.when \notin {"manual", "delayed"}) =>
                        Cardinality(ViolationsAbout(job.name, Unreachable)) = 1
                /\ job.when \in {"manual", "delayed"} =>
                        ViolationsAbout(job.name, Unreachable) = {}
            /\ (ci.stages # <<>> /\ JobStage(job) \in {ci.stages[1], ".pre"}) =>
                    ViolationsAbout(job.name, Unreachable) = {}

\* C16 as amended: the job of the last stage gets exactly one "may be
\* unreachable" violation when, besides, none of its rules has when: manual;
\* with when manual or delayed, or with such a rule, it gets none; a job of
\* the first declared stage or of .pre gets none.
C16_UnreachableByWhenAndRules ==
    dep_out.pc = "done" =>
        \A job \in JobsOf(ci) :
            /\ (Len(ci.stages) = 3 /\ JobStage(job) = ci.stages[3]) =>
                /\ (/\ ~Referenced(job) /\ job.when \notin {"manual", "delayed"}
                    /\ ~job.rules_manual) =>
                        Cardinality(ViolationsAbout(job.name, Unreachable)) = 1
                /\ (job.when \in {"manual", "delayed"} \/ job.rules_manual) =>
                        ViolationsAbout(job.name, Unreachable) = {}
            /\ (ci.stages # <<>> /\ JobStage(job) \in {ci.stages[1], ".pre"}) =>
                    ViolationsAbout(job.name, Unreachable) = {}

C16_Witness ==
    /\ dep_out.pc = "done"
    /\ ci.stages = <<"build", "test", "deploy">>
    /\ \E a, b \in JobsOf(ci) :
        /\ a.name = "a" /\ a.stage = "deploy" /\ a.when = "" /\ ~a.rules_manual
        /\ b.name = "b" /\ b.stage = "deploy" /\ b.needs = {"a"}
        /\ Cardinality(ViolationsAbout("b", Unreachable)) = 1
        /\ ViolationsAbout("a", Unreachable) = {}

\* The jobs of the declared stages before position pos
EarlierJobs(pos) ==
    {i \in 1..Len(ci.jobs) : \E k \in 1..(pos - 1) : JobStage(ci.jobs[i]) = ci.stages[k]}

ReliesOnStageOrdering(job) ==
    /\ Len(ci.stages) > 2
    /\ job.needs \cap KnownJobs = {}
    /\ \E pos \in 2..Len(ci.stages) :
        /\ ci.stages[pos] = JobStage(job)
        /\ Cardinality(EarlierJobs(pos)) > 3

\* C17: a job gets the "relies on stage ordering" violation, once and at
\* level INFO, exactly when more than two stages are declared, the job is in
\* a declared stage other than the first, it has no needs edge, and more than
\* three jobs are in earlier declared stages; without stages, or with at most
\* two, no job gets it.
C17_StageOrdering ==
    dep_out.pc = "done" =>
        \A job \in JobsOf(ci) :
            /\ Cardinality(ViolationsAbout(job.name, StageOrdering))
                  = IF ReliesOnStageOrdering(job) THEN 1 ELSE 0
            /\ \A k \in ViolationsAbout(job.name, StageOrdering) :
                  dep_out.violations[k].level = "info"

C17_Witness ==
    /\ dep_out.pc = "done"
    /\ ci.stages = <<"build", "test", "deploy">>
    /\ Len(ci.jobs) = 5
    /\ \E a \in JobsOf(ci) :
        /\ a.name = "a" /\ a.stage = "test" /\ a.needs = {}
        /\ Cardinality(EarlierJobs(2)) = 4
        /\ Cardinality(ViolationsAbout("a", StageOrdering)) = 1

MissingDependency(target) == <<"Job depends on non-existent job ", target>>

MissingNeed(target) == <<"Job needs non-existent job ", target>>

\* C18 as stated: for every job and every declared dependencies or needs
\* target that is not a known job, the rule adds an ERROR-level violation
\* naming the missing job and no edge; for a known target it adds the edge.
\* Both graphs have every job as a key and only known jobs as targets.
C18_MissingTargetIsError ==
    dep_out.pc = "done" =>
        /\ \A job \in JobsOf(ci) :
            /\ \A target \in job.dependencies :
                IF target \in KnownJobs
                THEN target \in dep_out.dependencies[job.name]
                ELSE /\ target \notin dep_out.dependencies[job.name]
                     /\ \E k \in ViolationsAbout(job.name, MissingDependency(target)) :
                            dep_out.violations[k].level = "error"
            /\ \A target \in job.needs \ {""} :
                IF target \in KnownJobs
                THEN target \in dep_out.needs_dependencies[job.name]
                ELSE /\ target \notin dep_out.needs_dependencies[job.name]
                     /\ \E k \in ViolationsAbout(job.name, MissingNeed(target)) :
                            dep_out.violations[k].level = "error"
        /\ DOMAIN dep_out.dependencies = KnownJobs
        /\ DOMAIN dep_out.needs_dependencies = KnownJobs
        /\ \A name \in KnownJobs :
              dep_out.dependencies[name] \cup dep_out.needs_dependencies[name] \subseteq KnownJobs

\* C19: lint_files returns one Result per path given, in the order given,
\* each with its own file_path, whether or not a file parses; for no path it
\* returns the empty list, and should_fail of that list is false.
C19_OneResultPerFile ==
    /\ call.op = "lint_files" =>
        /\ call.ret = "returned"
        /\ Len(results) = Len(call.files)
        /\ \A i \in 1..Len(results) :
            /\ results[i].file_path = i
            /\ (results[i].parse_error # "") <=> (call.files[i].kind # "ok")
    /\ (call.op = "should_fail" /\ call.files = <<>>) =>
        results = <<>> /\ call.ret = "false"

C19_Witness ==
    /\ call.op = "lint_files" /\ call.ret = "returned"
    /\ Len(call.files) = 2
    /\ call.files[1].kind = "missing" /\ call.files[2].kind = "ok"
    /\ results[1].parse_error # "" /\ results[1].file_path = 1
    /\ results[2].parse_error = "" /\ results[2].file_path = 2 /\ results[2].violations # <<>>

\* What a thread's check adds when it runs alone
SequentialRun(t) ==
    LET out == dependencies_check(fan.threads[t].pipeline, fan.configured, FanRank,
                                  FanDefaultStages).violations
    IN [k \in 1..Len(out) |-> [out[k] EXCEPT !.file_path = t]]

\* C20 as stated: when two files are checked at once by the same
\* JobDependenciesRule instance, whatever the interleaving, each file gets the
\* violations, with the levels, of a run on its own, and afterwards the rule's
\* level is its configured level.
C20_FanoutSafe ==
    (\A t \in DOMAIN fan.threads : fan.threads[t].pc = "done") =>
        /\ fan.level = fan.configured
        /\ \A t \in DOMAIN fan.threads : fan.threads[t].violations = SequentialRun(t)

\* What the resolver gives a rule when the settings the engine was built
\* from are loaded from a file: ConfigLoader.load_config, then is_rule_enabled
\* and get_rule_config on the loaded configuration.
FromFile(rule) ==
    LET loaded == load_config(document)
        entry == IF rule.rule_id \in DOMAIN loaded.rules THEN loaded.rules[rule.rule_id]
                 ELSE RuleConfigDefault
        disabled == /\ rule.category \in DOMAIN loaded.categories
                    /\ ~loaded.categories[rule.category]
    IN [enabled |-> IF disabled THEN FALSE ELSE entry.enabled, level |-> entry.level]

\* C21 as stated: for an engine built from an in-memory LinterConfig object,
\* register_rule leaves every rule with the enabled and level that the same
\* settings give when they are loaded from a file.
C21_ObjectConfigApplied ==
    (call.op = "register_rules" /\ ~loader_config) =>
        \A i \in 1..Len(rules) :
            /\ rules[i].enabled = FromFile(rules[i]).enabled
            /\ rules[i].level = FromFile(rules[i]).level

\* The level of the first source, in the order of precedence, that gives the
\* rule a level: its entry in the settings, the default table, ERROR.
LevelByPrecedence(rule_id) ==
    IF rule_id \in DOMAIN document.rules /\ document.rules[rule_id].level # "unset"
    THEN document.rules[rule_id].level
    ELSE IF rule_id \in DOMAIN default_rules THEN default_rules[rule_id].level
    ELSE ERROR

\* C22 as stated: with a configuration loaded from a file, register_rule gives
\* a rule the level of the highest source that specifies one: the rule's entry
\* in the file, then the default table, then ERROR; an entry that sets only
\* enabled leaves the rule at its default-table level.
C22_LevelPrecedence ==
    (call.op = "register_rules" /\ loader_config) =>
        \A i \in 1..Len(rules) : rules[i].level = LevelByPrecedence(rules[i].rule_id)

\* C23 as stated: under a loaded configuration that has no entry for a rule,
\* after register_rule the violations the rule's check adds have the level
\* the rule's class declares (WARNING for PythonCacheRule, GL027).
C23_DeclaredLevelReported ==
    call.op = "lint_files" =>
        \A i \in 1..Len(results) : \A k \in 1..Len(results[i].violations) :
            LET v == results[i].violations[k]
            IN (v.message = Finding /\ v.rule_id \notin DOMAIN config.rules) =>
                    v.level = ClassOf(v.rule_id).level

CircularAbout(graph, name) ==
    {k \in CircularViolations :
        /\ dep_out.violations[k].message = Circular(graph)
        /\ dep_out.violations[k].job_name = name}

\* C24: the two graphs are checked for cycles apart: a circular-dependency
\* violation that names a graph is added only when that graph alone has a
\* directed cycle, so a loop made of a dependencies edge and a needs edge gives
\* none, and a cycle of one graph gives none that names the other graph.
C24_GraphsNotConflated ==
    dep_out.pc = "done" =>
        \A graph \in {"dependencies", "needs"} :
            (\E name \in KnownJobs : CircularAbout(graph, name) # {}) =>
                HasDirectedCycle(DeclaredEdges(graph))

C24_Witness ==
    /\ dep_out.pc = "done"
    /\ <<"a", "b">> \in DeclaredEdges("dependencies")
    /\ <<"b", "a">> \in DeclaredEdges("needs")
    /\ ~HasDirectedCycle(DeclaredEdges("dependencies"))
    /\ ~HasDirectedCycle(DeclaredEdges("needs"))
    /\ CircularViolations = {}

\* A walk over the edges that starts at the job and comes back to a job it
\* has already passed: a directed cycle can be reached from the job
CycleReachableFrom(name, E) ==
    \E n \in 2..(Cardinality(KnownJobs) + 1) : \E p \in [1..n -> KnownJobs] :
        /\ p[1] = name
        /\ \A i \in 1..(n - 1) : <<p[i], p[i + 1]>> \in E
        /\ \E i \in 1..(n - 1) : p[i] = p[n]

\* C25: per graph, _check_cycles adds exactly one circular-dependency
\* violation for a job from which a directed cycle of that graph can be
\* reached (a job on the cycle, or one that depends on it through other
\* jobs), and none for any other job.
C25_ReportedIffCycleReachable ==
    dep_out.pc = "done" =>
        \A graph \in {"dependencies", "needs"} : \A name \in KnownJobs :
            Cardinality(CircularAbout(graph, name))
                = IF CycleReachableFrom(name, DeclaredEdges(graph)) THEN 1 ELSE 0

C25_Witness ==
    /\ dep_out.pc = "done"
    /\ DeclaredEdges("needs") = {<<"a", "b">>, <<"b", "c">>, <<"c", "b">>}
    /\ \A name \in {"a", "b", "c"} : Cardinality(CircularAbout("needs", name)) = 1
    /\ \A name \in KnownJobs : CircularAbout("dependencies", name) = {}

\* Some job other than this one names it among its dependencies or needs
ReferencedByOther(job) ==
    \E other \in JobsOf(ci) :
        other.name # job.name /\ job.name \in (other.dependencies \cup other.needs)

\* C26 as stated: with declared stages, a job gets the "may be unreachable"
\* violation, always at level WARNING whatever the rule's level, if and only
\* if it is not in the first stage or .pre, no other job names it among its
\* dependencies or needs (naming itself does not count), and its own when is
\* neither manual nor delayed.
C26_UnreachableIff ==
    dep_out.pc = "done" =>
        \A job \in JobsOf(ci) :
            /\ (ViolationsAbout(job.name, Unreachable) # {}) <=>
                    /\ JobStage(job) \notin {ci.stages[1], ".pre"}
                    /\ ~ReferencedByOther(job)
                    /\ job.when \notin {"manual", "delayed"}
            /\ \A k \in ViolationsAbout(job.name, Unreachable) :
                    dep_out.violations[k].level = WARNING

\* Calls of has_cycle that are active: the frames, and the call being entered
WalkDepth == Len(walk.stack) + (IF walk.pc = "enter" THEN 1 ELSE 0)

WalkJobs == {walk.keys[k] : k \in 1..Len(walk.keys)}

C28_NoStateCarried ==
    [][/\ dep_out'.level = dep_out.level
       /\ dep_out'.pc = "done" =>
            \E rank \in Ranks, default_stages \in DefaultStageLists :
                dep_out'.violations
                    = dependencies_check(ci', dep_out.level, rank, default_stages).violations]_vars

C28_Witness ==
    /\ dep_out.pc = "done"
    /\ dep_out.level = ERROR
    /\ \E job \in JobsOf(ci) :
        /\ ViolationsAbout(job.name, Unreachable) # {}
        /\ \A k \in ViolationsAbout(job.name, Unreachable) :
              dep_out.violations[k].level = WARNING
    /\ \E k \in CircularViolations : dep_out.violations[k].level = ERROR

\* The results of the files that parsed
Parsed == {i \in 1..Len(results) : results[i].parse_error = ""}

ParsedHasLevel(level) ==
    \E i \in Parsed : \E k \in 1..Len(results[i].violations) :
        results[i].violations[k].level = level

\* C29: a Result of a file that did not parse holds no violation and adds
\* nothing to the decision: should_fail is true exactly when a file that
\* parsed has an ERROR violation, or fail_on_warnings is set and one has a
\* WARNING violation; when no file of the run parsed it is false, with
\* fail_on_warnings set or not.
C29_ParseFailureNotCounted ==
    /\ \A i \in 1..Len(results) : results[i].parse_error # "" => results[i].violations = <<>>
    /\ call.op = "should_fail" =>
        /\ (call.ret = "true") <=>
                (ParsedHasLevel(ERROR) \/ (config.fail_on_warnings /\ ParsedHasLevel(WARNING)))
        /\ Parsed = {} => call.ret = "false"

C29_Witness ==
    /\ call.op = "should_fail"
    /\ Len(call.files) = 2
    /\ \A i \in 1..2 : call.files[i].kind = "missing" /\ results[i].parse_error # ""
    /\ config.fail_on_warnings
    /\ call.ret = "false"

ProducedLevel(level) ==
    \E i \in 1..Len(call.files) : \E k \in 1..Len(Produced(i)) :
        Produced(i)[k].level = level

\* C30 as stated: whatever max_violations is, should_fail of the list that
\* lint_files returned is true whenever lint_file produced an ERROR violation
\* for some file, and, with fail_on_warnings set, whenever it produced a
\* WARNING violation.
C30_TruncationKeepsDecision ==
    (/\ call.op = "should_fail"
     /\ ProducedLevel(ERROR) \/ (config.fail_on_warnings /\ ProducedLevel(WARNING)))
        => call.ret = "true"

====
